---- MODULE Spec2Model ----
(***************************************************************************)
(* A model of the Moltbook analysis console (src/app.js): the DataService  *)
(* query engine, the rectangle-selection handlers of the two scatter       *)
(* plots and the two network builders.                                     *)
(*                                                                         *)
(* Strings that the code only compares for equality (community names,      *)
(* tags, class notes) are TLA+ strings.  Strings that the code lower-cases *)
(* or searches (title, content, author_name, the search query) are         *)
(* sequences of one-character strings.                                     *)
(***************************************************************************)
EXTENDS Integers, Sequences, FiniteSets, TLC

VARIABLES
    pc,                 \* which operation is pending / has run
    posts,              \* DataService.posts
    postTags,           \* DataService.postTags
    postClassNotes,     \* DataService.postClassNotes
    tagEdges,           \* DataService.tagEdges
    submoltUmap,        \* DataService.submoltUmap
    postEmbeddings,     \* DataService.postEmbeddings
    postById,           \* DataService.postById
    tagsByPostId,       \* DataService.tagsByPostId
    classNotesByPostId, \* DataService.classNotesByPostId
    embeddingByPostId,  \* DataService.embeddingByPostId
    submolts,           \* DataService.submolts
    submoltByName,      \* DataService.submoltByName
    postsBySubmolt,     \* DataService.postsBySubmolt
    postsByAuthor,      \* DataService.postsByAuthor
    filters,            \* StateService.filters
    currentPosts,       \* currentPosts: the value returned by filterPosts(filters)
    refiltered,         \* filterPosts run again with the result as corpus
    histArgs,           \* arguments of getHistogram: posts, field, bins
    hist,               \* value returned by getHistogram
    similarArgs,        \* arguments of findSimilarPosts: postId, limit
    similar,            \* value returned by findSimilarPosts
    query,              \* a DataService query in progress: its name and arguments
    answer,             \* the value the query returned
    plot,               \* the scatter plot on screen: which one, container size
    selStart,           \* selStart of the plot's rectangle selection
    selected,           \* the last mouseup: its rectangle and the ids it selected
    currentNetworkType, \* which graph the networks tab shows
    edgeThresholdPercent,
    network,            \* what renderNetworks produced
    hash,               \* location.hash
    view,               \* what renderCurrentTab produced last
    currentTab,         \* currentTab: the tab on screen
    loaded,             \* how many of the seven record sequences loadAll has assigned
    indexBuilds,        \* how many times buildIndexes has run
    evaluated           \* whether filterPosts or another query has run

corpusVars == <<posts, postTags, postClassNotes, tagEdges, submoltUmap, postEmbeddings,
                postById, tagsByPostId, classNotesByPostId, embeddingByPostId,
                submolts, submoltByName, postsBySubmolt, postsByAuthor>>

filterVars == <<filters, currentPosts, refiltered>>

histVars == <<histArgs, hist>>

similarVars == <<similarArgs, similar>>

queryVars == <<query, answer>>

plotVars == <<plot, selStart, selected>>

networkVars == <<currentNetworkType, edgeThresholdPercent, network>>

sessionVars == <<hash, view, currentTab, loaded, indexBuilds, evaluated>>

vars == <<pc, corpusVars, filterVars, histVars, similarVars, queryVars, plotVars, networkVars, sessionVars>>

-----------------------------------------------------------------------------
(* Bounds *)

MaxPosts == 3

\* getHistogram: number of posts, largest field value, largest number of bins
MaxHistPosts == 3

MaxValue == 3

\* numbers of bins tried: 1..SmallBins, the console's own DefaultBins, and MaxBins
SmallBins == 4

MaxBins == 49

\* findSimilarPosts: number of embedding rows, largest limit
MaxEmbeddings == 3

MaxLimit == 3

\* rectangle selection: number of plotted points
MaxPoints == 3

\* networks: number of tag edges, number of posts
MaxEdges == 4

MaxNetworkPosts == 4

\* getTopItems: number of posts, largest limit
MaxTopPosts == 4

MaxTopLimit == 3

\* sortPosts: number of posts
MaxSortPosts == 4

\* findDuplicates: copies of each title
MaxCopies == 2

\* findOutliers: number of freely chosen posts
MaxOutlierHead == 3

\* the largest number of posts of the prolific author in one community
MaxHeavy == 3

\* the largest number of Tag rows of the grouping scenario
MaxTagRows == 4

\* the largest number of posts, and of Tag or ClassNote rows, of the index scenario
MaxIndexPosts == 4

MaxIndexRows == 3

\* the largest corpus of the scenario of absent fields
MaxAbsentPosts == 3

\* the largest corpus of the scenario of unknown ids
MaxUnknownPosts == 2

MaxSessionPosts == 3

MaxIntegrityPosts == 4

MaxLoadPosts == 2

MaxQueryPosts == 3

-----------------------------------------------------------------------------
(* JavaScript values *)

\* null / undefined
Null == [isNull |-> TRUE]

IsNull(v) == v = Null

\* a non-null array value
Arr(s) == [isNull |-> FALSE, ids |-> s]

\* the elements of an array
Range(s) == {s[i] : i \in 1..Len(s)}

\* Map.prototype.get(k) || dflt
MapGet(m, k, dflt) == IF k \in DOMAIN m THEN m[k] ELSE dflt

EmptyMap == [k \in {} |-> <<>>]

\* Map.prototype.set(k, v): a new key is added, an existing one overwritten
MapSet(m, k, v) == [x \in (DOMAIN m) \cup {k} |-> IF x = k THEN v ELSE m[x]]

\* new Set(array).has(x)
SetHas(s, x) == \E i \in 1..Len(s) : s[i] = x

\* String.prototype.toLowerCase on one character of the model's alphabet
LowerChar(c) == IF c = "A" THEN "a" ELSE IF c = "B" THEN "b" ELSE c

\* String.prototype.toLowerCase
ToLowerCase(s) == [i \in 1..Len(s) |-> LowerChar(s[i])]

\* String.prototype.includes: q occurs in s as a contiguous substring
Includes(s, q) ==
    \E k \in 0..(Len(s) - Len(q)) : \A i \in 1..Len(q) : s[k + i] = q[i]

-----------------------------------------------------------------------------
(* DataService.buildIndexes: the grouping loops *)

RECURSIVE GroupByPostId(_, _, _)
GroupByPostId(rows, i, m) ==
    IF i > Len(rows) THEN m
    ELSE LET row == rows[i]
             arr == MapGet(m, row.post_id, <<>>)
         IN  GroupByPostId(rows, i + 1, MapSet(m, row.post_id, Append(arr, row)))

BuildTagsByPostId(rows) == GroupByPostId(rows, 1, EmptyMap)

BuildClassNotesByPostId(rows) == GroupByPostId(rows, 1, EmptyMap)

-----------------------------------------------------------------------------
(* DataService.filterPosts *)

\* variant without the length guard: an empty selection filters everything out
FilterSubmoltsNoGuard(result, f) ==
    SelectSeq(result, LAMBDA p : SetHas(f.submolts, p.submolt_name))

FilterSubmolts(result, f) ==
    IF Len(f.submolts) > 0
    THEN SelectSeq(result, LAMBDA p : SetHas(f.submolts, p.submolt_name))
    ELSE result

FilterAuthors(result, f) ==
    IF Len(f.authors) > 0
    THEN SelectSeq(result, LAMBDA p : SetHas(f.authors, p.author_name))
    ELSE result

FilterTags(result, f, tagIdx) ==
    IF Len(f.tags) > 0
    THEN SelectSeq(result, LAMBDA p :
            LET tags == MapGet(tagIdx, p.post_id, <<>>)
            IN  \E i \in 1..Len(tags) : SetHas(f.tags, tags[i].tag))
    ELSE result

FilterClassNotes(result, f, noteIdx) ==
    IF Len(f.classNotes) > 0
    THEN SelectSeq(result, LAMBDA p :
            LET notes == MapGet(noteIdx, p.post_id, <<>>)
            IN  \E i \in 1..Len(notes) : SetHas(f.classNotes, notes[i].class_note))
    ELSE result

FilterMinUpvotes(result, f) ==
    IF f.engagement.minUpvotes > 0
    THEN SelectSeq(result, LAMBDA p : p.upvotes >= f.engagement.minUpvotes)
    ELSE result

FilterMinComments(result, f) ==
    IF f.engagement.minComments > 0
    THEN SelectSeq(result, LAMBDA p : p.comment_count >= f.engagement.minComments)
    ELSE result

\* case-sensitive variant: the query is not lower-cased
FilterSearchCaseSensitive(result, f) ==
    IF f.search # <<>>
    THEN SelectSeq(result, LAMBDA p :
            \/ Includes(ToLowerCase(p.title), f.search)
            \/ Includes(ToLowerCase(p.content), f.search)
            \/ Includes(ToLowerCase(p.author_name), f.search))
    ELSE result

\* if (filters.search): a string is truthy iff it is not the empty string
FilterSearch(result, f) ==
    IF f.search # <<>>
    THEN LET q == ToLowerCase(f.search)
         IN  SelectSeq(result, LAMBDA p :
                \/ Includes(ToLowerCase(p.title), q)
                \/ Includes(ToLowerCase(p.content), q)
                \/ Includes(ToLowerCase(p.author_name), q))
    ELSE result

\* variant testing the allow-list against the position instead of the id
FilterPostIdsByIndex(result, f) ==
    IF ~IsNull(f.postIds) /\ Len(f.postIds.ids) > 0
    THEN LET keep == {i \in 1..Len(result) : SetHas(f.postIds.ids, i)}
             RECURSIVE Pick(_)
             Pick(i) == IF i > Len(result) THEN <<>>
                        ELSE (IF i \in keep THEN <<result[i]>> ELSE <<>>) \o Pick(i + 1)
         IN  Pick(1)
    ELSE result

\* variant that ignores an allow-list none of whose ids is found
FilterPostIdsOrAll(result, f) ==
    IF ~IsNull(f.postIds) /\ \E i \in 1..Len(result) : SetHas(f.postIds.ids, result[i].post_id)
    THEN SelectSeq(result, LAMBDA p : SetHas(f.postIds.ids, p.post_id))
    ELSE result

\* if (filters.postIds && filters.postIds.length > 0)
FilterPostIds(result, f) ==
    IF ~IsNull(f.postIds) /\ Len(f.postIds.ids) > 0
    THEN SelectSeq(result, LAMBDA p : SetHas(f.postIds.ids, p.post_id))
    ELSE result

\* filterPosts with this.posts = corpus and the two indexes it reads
FilterPosts(corpus, tagIdx, noteIdx, f) ==
    LET r1 == FilterSubmolts(corpus, f)
        r2 == FilterAuthors(r1, f)
        r3 == FilterTags(r2, f, tagIdx)
        r4 == FilterClassNotes(r3, f, noteIdx)
        r5 == FilterMinUpvotes(r4, f)
        r6 == FilterMinComments(r5, f)
        r7 == FilterSearch(r6, f)
    IN  FilterPostIds(r7, f)

-----------------------------------------------------------------------------
(* JavaScript Number arithmetic (IEEE 754 binary64, round to nearest, ties  *)
(* to even) on the non-negative values getHistogram computes.               *)
(*                                                                          *)
(* A Number x is held exactly as the integer x * 2^FracBits, written as     *)
(* NumLimbs digits of LimbBits bits each, least significant first.  Every   *)
(* binary64 value in [2^-12, 2^24) is a multiple of 2^-64 and so has such a *)
(* representation; the operators below are exact for operands and results   *)
(* in that range.                                                           *)

LimbBits == 12

Base == 2 ^ LimbBits

\* digits below the binary point: FracBits = 72
FracLimbs == 6

\* FracLimbs digits of fraction and two digits of integer part
NumLimbs == 8

\* bits of a binary64 significand
Precision == 53

LimbIdx == 1..NumLimbs

\* the Number with the integer value n, 0 <= n < Base^2
ToNumber(n) ==
    [j \in LimbIdx |-> IF j = FracLimbs + 1 THEN n % Base
                       ELSE IF j = FracLimbs + 2 THEN n \div Base
                       ELSE 0]

\* Math.floor
Floor(x) == x[FracLimbs + 1] + Base * x[FracLimbs + 2]

IsInteger(x) == \A j \in 1..FracLimbs : x[j] = 0

\* exact sum of two digit strings
RECURSIVE AddFrom(_, _, _, _)
AddFrom(a, b, j, carry) ==
    IF j > NumLimbs THEN <<>>
    ELSE LET t == a[j] + b[j] + carry
         IN  <<t % Base>> \o AddFrom(a, b, j + 1, t \div Base)

AddExact(a, b) == AddFrom(a, b, 1, 0)

\* exact product of a digit string and a small integer
RECURSIVE MulFrom(_, _, _, _)
MulFrom(a, i, j, carry) ==
    IF j > NumLimbs THEN <<>>
    ELSE LET t == a[j] * i + carry
         IN  <<t % Base>> \o MulFrom(a, i, j + 1, t \div Base)

MulExact(a, i) == MulFrom(a, i, 1, 0)

\* floor(d * 2^FracBits / k) by long division, most significant digit first,
\* and whether the division left a remainder
RECURSIVE DivFrom(_, _, _, _)
DivFrom(a, k, j, r) ==
    IF j = 0 THEN [digits |-> <<>>, inexact |-> r # 0]
    ELSE LET t    == r * Base + a[j]
             rest == DivFrom(a, k, j - 1, t % k)
         IN  [digits |-> Append(rest.digits, t \div k), inexact |-> rest.inexact]

DivExact(d, k) == DivFrom(ToNumber(d), k, NumLimbs, 0)

\* number of significant bits of one digit
BitLen(v) == IF v = 0 THEN 0 ELSE CHOOSE n \in 1..LimbBits : 2 ^ (n - 1) <= v /\ v < 2 ^ n

\* index (from 0) of the most significant set bit of a non-zero digit string
MsbIndex(a) ==
    LET top == CHOOSE j \in LimbIdx : a[j] # 0 /\ \A l \in LimbIdx : l > j => a[l] = 0
    IN  (top - 1) * LimbBits + BitLen(a[top]) - 1

Bit(a, b) == (a[(b \div LimbBits) + 1] \div (2 ^ (b % LimbBits))) % 2

\* some bit of index < b is set
AnyBitBelow(a, b) ==
    \/ \E j \in LimbIdx : j < (b \div LimbBits) + 1 /\ a[j] # 0
    \/ a[(b \div LimbBits) + 1] % (2 ^ (b % LimbBits)) # 0

\* a with the bits of index < b cleared
ClearBelow(a, b) ==
    [j \in LimbIdx |->
        IF j < (b \div LimbBits) + 1 THEN 0
        ELSE IF j = (b \div LimbBits) + 1 THEN a[j] - (a[j] % (2 ^ (b % LimbBits)))
        ELSE a[j]]

\* the digit string of 2^b
PowerOfTwo(b) ==
    [j \in LimbIdx |-> IF j = (b \div LimbBits) + 1 THEN 2 ^ (b % LimbBits) ELSE 0]

\* the binary64 value nearest to the exact value a (+ a positive amount below
\* the last digit when inexact), ties to even
RoundNearestEven(a, inexact) ==
    IF \A j \in LimbIdx : a[j] = 0 THEN a
    ELSE LET ulp == MsbIndex(a) - (Precision - 1)
         IN  IF ulp <= 0 THEN a
             ELSE LET half   == Bit(a, ulp - 1) = 1
                      sticky == inexact \/ AnyBitBelow(a, ulp - 1)
                      odd    == Bit(a, ulp) = 1
                      down   == ClearBelow(a, ulp)
                  IN  IF half /\ (sticky \/ odd)
                      THEN AddExact(down, PowerOfTwo(ulp))
                      ELSE down

\* d / k for integers d >= 0, k >= 1
NumDiv(d, k) == LET q == DivExact(d, k) IN RoundNearestEven(q.digits, q.inexact)

\* i * x for an integer i >= 0
NumMul(i, x) == RoundNearestEven(MulExact(x, i), FALSE)

\* n + x for an integer n >= 0
NumAdd(n, x) == RoundNearestEven(AddExact(ToNumber(n), x), FALSE)

\* v >= x, v < x, v <= x for an integer v
NumGe(v, x) == v > Floor(x) \/ (v = Floor(x) /\ IsInteger(x))

NumLt(v, x) == ~NumGe(v, x)

NumLe(v, x) == v <= Floor(x)

-----------------------------------------------------------------------------
(* DataService.getHistogram *)

\* Math.min(...values), Math.max(...values)
MathMin(values) == CHOOSE v \in Range(values) : \A w \in Range(values) : v <= w

MathMax(values) == CHOOSE v \in Range(values) : \A w \in Range(values) : v >= w

\* lo = min + i * binSize, hi = min + (i + 1) * binSize
BinLo(min, binSize, i) == NumAdd(min, NumMul(i, binSize))

BinHi(min, binSize, i) == NumAdd(min, NumMul(i + 1, binSize))

\* variant with buckets (lo, hi], the first one closed
InBinUpperClosed(v, lo, hi, first, last) ==
    (IF first THEN NumGe(v, lo) ELSE ~NumLe(v, lo)) /\ NumLe(v, hi)

\* v >= lo && (i === bins - 1 ? v <= hi : v < hi)
InBin(v, lo, hi, first, last) ==
    NumGe(v, lo) /\ (IF last THEN NumLe(v, hi) ELSE NumLt(v, hi))

\* bucket i (from 0) of the histogram of values
Bucket(values, min, binSize, bins, i) ==
    LET lo == BinLo(min, binSize, i)
        hi == BinHi(min, binSize, i)
    IN  [min   |-> Floor(lo),
         max   |-> Floor(hi),
         count |-> Cardinality({n \in 1..Len(values) :
                                   InBin(values[n], lo, hi, i = 0, i = bins - 1)})]

\* getHistogram(posts, field, bins = 10)
DefaultBins == 10

GetHistogram(ps, field, bins) ==
    IF Len(ps) = 0 THEN <<>>
    ELSE LET values == [n \in 1..Len(ps) |-> ps[n][field]]
             min    == MathMin(values)
             max    == MathMax(values)
         IN  IF max = min
             THEN <<[min |-> min, max |-> min + 1, count |-> Len(ps)]>>
             ELSE LET binSize == NumDiv(max - min, bins)
                  IN  [b \in 1..bins |-> Bucket(values, min, binSize, bins, b - 1)]

-----------------------------------------------------------------------------
(* Maps that are iterated: a Map is the sequence of its [key, value] entries *)
(* in insertion order.                                                      *)

OMapHas(m, k) == \E i \in 1..Len(m) : m[i].key = k

\* Map.prototype.get: the value, or undefined
OMapGet(m, k) ==
    IF OMapHas(m, k) THEN m[CHOOSE i \in 1..Len(m) : m[i].key = k].value ELSE Null

\* Map.prototype.set: an existing key keeps its position and takes the new value
OMapSet(m, k, v) ==
    IF OMapHas(m, k)
    THEN LET at == CHOOSE i \in 1..Len(m) : m[i].key = k
         IN  SubSeq(m, 1, at - 1) \o <<[key |-> k, value |-> v]>> \o SubSeq(m, at + 1, Len(m))
    ELSE Append(m, [key |-> k, value |-> v])

\* new Map(rows.map(r => [r.post_id, r]))
RECURSIVE MapByPostId(_, _, _)
MapByPostId(rows, i, m) ==
    IF i > Len(rows) THEN m
    ELSE MapByPostId(rows, i + 1, OMapSet(m, rows[i].post_id, rows[i]))

BuildPostById(ps) == MapByPostId(ps, 1, <<>>)

BuildEmbeddingByPostId(embs) == MapByPostId(embs, 1, <<>>)

-----------------------------------------------------------------------------
(* DataService.findSimilarPosts.  Coordinates are integers and d2 is the    *)
(* square of the distance d the code sorts by; the square root is strictly  *)
(* increasing, so d and d2 order the points alike.                          *)

Dist2(a, b) == (a.x - b.x) * (a.x - b.x) + (a.y - b.y) * (a.y - b.y)

\* variant that does not skip the anchor's own entry
RECURSIVE DistsWithAnchor(_, _, _, _)
DistsWithAnchor(embIdx, postId, target, i) ==
    IF i > Len(embIdx) THEN <<>>
    ELSE <<[id |-> embIdx[i].key, d2 |-> Dist2(embIdx[i].value, target)]>>
         \o DistsWithAnchor(embIdx, postId, target, i + 1)

\* the loop over embeddingByPostId.entries(), from entry i on
RECURSIVE Dists(_, _, _, _)
Dists(embIdx, postId, target, i) ==
    IF i > Len(embIdx) THEN <<>>
    ELSE (IF embIdx[i].key = postId THEN <<>>
          ELSE <<[id |-> embIdx[i].key, d2 |-> Dist2(embIdx[i].value, target)]>>)
         \o Dists(embIdx, postId, target, i + 1)

\* x put into the sorted sequence s after every element that is not farther
InsertByDistance(s, x) ==
    LET k == Cardinality({i \in 1..Len(s) : s[i].d2 <= x.d2})
    IN  SubSeq(s, 1, k) \o <<x>> \o SubSeq(s, k + 1, Len(s))

\* dists.sort((a, b) => a.d - b.d): ascending and stable
RECURSIVE SortByDistance(_)
SortByDistance(s) ==
    IF s = <<>> THEN <<>>
    ELSE InsertByDistance(SortByDistance(SubSeq(s, 1, Len(s) - 1)), s[Len(s)])

\* Array.prototype.slice(0, n) for n >= 0
SliceTo(s, n) == SubSeq(s, 1, IF n < Len(s) THEN n ELSE Len(s))

\* .map(x => this.postById.get(x.id)).filter(Boolean)
ResolvePosts(ds, postIdx) ==
    LET found == [i \in 1..Len(ds) |-> OMapGet(postIdx, ds[i].id)]
    IN  SelectSeq(found, LAMBDA q : ~IsNull(q))

FindSimilarPosts(embIdx, postIdx, postId, limit) ==
    LET target == OMapGet(embIdx, postId)
    IN  IF IsNull(target) THEN <<>>
        ELSE ResolvePosts(SliceTo(SortByDistance(Dists(embIdx, postId, target, 1)), limit),
                          postIdx)

-----------------------------------------------------------------------------
(* The scatter plots of renderSpaces and renderEmbeddings.  A plotted       *)
(* position is the exact fraction num / den (den > 0) of the linear scale;  *)
(* the circle is drawn at, and the selection tested against, the same       *)
(* scale value.  Pointer positions are d3.pointer(e, g.node()): they are in *)
(* the coordinates of the group the circles are drawn in, whatever the zoom.*)

\* d3.scaleLinear().domain([d0, d1]).range([r0, r1]) applied to v, d0 < d1
ScaleLinear(d0, d1, r0, r1, v) ==
    [num |-> r0 * (d1 - d0) + (v - d0) * (r1 - r0), den |-> d1 - d0]

\* p >= n and p <= n for a fraction p and a whole number n
FracGe(p, n) == p.num >= n * p.den

FracLe(p, n) == p.num <= n * p.den

FracGt(p, n) == p.num > n * p.den

FracLt(p, n) == p.num < n * p.den

ColumnX(rows) == [i \in 1..Len(rows) |-> rows[i].x]

ColumnY(rows) == [i \in 1..Len(rows) |-> rows[i].y]

\* the margin added on both sides of the data extent
DomainMargin == 5

\* renderSpaces: range([40, width - 20]) and range([height - 20, 20])
SpacesLeft == 40

SpacesFar == 20

\* renderEmbeddings: const pad = 40
EmbeddingsPad == 40

SpacesXScale(umap, width, v) ==
    ScaleLinear(MathMin(ColumnX(umap)) - DomainMargin, MathMax(ColumnX(umap)) + DomainMargin,
                SpacesLeft, width - SpacesFar, v)

SpacesYScale(umap, height, v) ==
    ScaleLinear(MathMin(ColumnY(umap)) - DomainMargin, MathMax(ColumnY(umap)) + DomainMargin,
                height - SpacesFar, SpacesFar, v)

EmbeddingsXScale(embs, width, v) ==
    ScaleLinear(MathMin(ColumnX(embs)) - DomainMargin, MathMax(ColumnX(embs)) + DomainMargin,
                EmbeddingsPad, width - EmbeddingsPad, v)

EmbeddingsYScale(embs, height, v) ==
    ScaleLinear(MathMin(ColumnY(embs)) - DomainMargin, MathMax(ColumnY(embs)) + DomainMargin,
                height - EmbeddingsPad, EmbeddingsPad, v)

\* variant with the four edges excluded
InRectOpen(px, py, x0, y0, x1, y1) ==
    FracGt(px, x0) /\ FracLt(px, x1) /\ FracGt(py, y0) /\ FracLt(py, y1)

\* px >= x0 && px <= x1 && py >= y0 && py <= y1
InRect(px, py, x0, y0, x1, y1) ==
    FracGe(px, x0) /\ FracLe(px, x1) /\ FracGe(py, y0) /\ FracLe(py, y1)

\* the smallest drag, in pixels, that is not taken for a click
DragThreshold == 5

\* variant that takes every gesture for a drag
IsDragAlways(x0, y0, x1, y1) == TRUE

\* x1 - x0 > 5 && y1 - y0 > 5
IsDrag(x0, y0, x1, y1) == x1 - x0 > DragThreshold /\ y1 - y0 > DragThreshold

Min2(a, b) == IF a <= b THEN a ELSE b

Max2(a, b) == IF a >= b THEN a ELSE b

\* the rectangle between the mousedown position s and the mouseup position (mx, my)
DragRect(s, mx, my) ==
    [x0 |-> Min2(s.x, mx), y0 |-> Min2(s.y, my),
     x1 |-> Max2(s.x, mx), y1 |-> Max2(s.y, my)]

\* umap.filter(d => ...).map(d => d.submolt_name)
SpacesSelected(umap, p, r) ==
    LET hit == SelectSeq(umap, LAMBDA d :
                   InRect(SpacesXScale(umap, p.width, d.x), SpacesYScale(umap, p.height, d.y),
                          r.x0, r.y0, r.x1, r.y1))
    IN  [i \in 1..Len(hit) |-> hit[i].submolt_name]

\* embs.filter(d => ...).map(d => d.post_id)
EmbeddingsSelected(embs, p, r) ==
    LET hit == SelectSeq(embs, LAMBDA d :
                   InRect(EmbeddingsXScale(embs, p.width, d.x),
                          EmbeddingsYScale(embs, p.height, d.y),
                          r.x0, r.y0, r.x1, r.y1))
    IN  [i \in 1..Len(hit) |-> hit[i].post_id]

-----------------------------------------------------------------------------
(* renderTagNetwork and renderAuthorSubmoltNetwork.  A normalized weight is *)
(* a Number that may be NaN: [nan |-> TRUE] or [nan |-> FALSE, digits].     *)

NaN == [nan |-> TRUE]

\* m.get(k) || 0 for a map of counts
GetOrZero(m, k) == IF OMapHas(m, k) THEN OMapGet(m, k) ELSE 0

\* the loop that accumulates nodeWeights, from edge i on
RECURSIVE NodeWeightsFrom(_, _, _)
NodeWeightsFrom(edges, i, m) ==
    IF i > Len(edges) THEN m
    ELSE LET e  == edges[i]
             m1 == OMapSet(m, e.tag_a, GetOrZero(m, e.tag_a) + e.weight)
             m2 == OMapSet(m1, e.tag_b, GetOrZero(m1, e.tag_b) + e.weight)
         IN  NodeWeightsFrom(edges, i + 1, m2)

NodeWeights(edges) == NodeWeightsFrom(edges, 1, <<>>)

\* variant normalizing by the lighter endpoint
MinPairWeight(nodeWeights, e) == Min2(OMapGet(nodeWeights, e.tag_a), OMapGet(nodeWeights, e.tag_b))

\* Math.max(nodeWeights.get(e.tag_a), nodeWeights.get(e.tag_b))
MaxPairWeight(nodeWeights, e) == Max2(OMapGet(nodeWeights, e.tag_a), OMapGet(nodeWeights, e.tag_b))

Percent == 100

\* (w / m) * 100 for integers 0 <= w <= m; 0 / 0 is NaN and NaN * 100 is NaN
Normalize(w, m) ==
    IF m = 0 THEN NaN
    ELSE [nan |-> FALSE, digits |-> NumMul(Percent, NumDiv(w, m))]

\* variant with a strict comparison
MoreThan(x, t) == ~x.nan /\ ~NumGe(t, x.digits)

\* x >= t for a Number x and an integer t; false when x is NaN
AtLeast(x, t) == ~x.nan /\ NumLe(t, x.digits)

NormalizedEdges(edges) ==
    LET nodeWeights == NodeWeights(edges)
    IN  [i \in 1..Len(edges) |->
            [tag_a |-> edges[i].tag_a, tag_b |-> edges[i].tag_b, weight |-> edges[i].weight,
             normalizedWeight |-> Normalize(edges[i].weight, MaxPairWeight(nodeWeights, edges[i]))]]

\* Array.from(new Set(...)): the elements of s without repetitions, first occurrences kept
RECURSIVE Distinct(_)
Distinct(s) ==
    IF s = <<>> THEN <<>>
    ELSE LET front == Distinct(SubSeq(s, 1, Len(s) - 1))
         IN  IF s[Len(s)] \in Range(front) THEN front ELSE Append(front, s[Len(s)])

\* variant that collects the first endpoint of each edge only
RECURSIVE Sources(_)
Sources(edges) ==
    IF edges = <<>> THEN <<>>
    ELSE Append(Sources(SubSeq(edges, 1, Len(edges) - 1)), edges[Len(edges)].tag_a)

\* edges.forEach(e => { nodeSet.add(e.tag_a); nodeSet.add(e.tag_b); })
RECURSIVE Endpoints(_)
Endpoints(edges) ==
    IF edges = <<>> THEN <<>>
    ELSE Endpoints(SubSeq(edges, 1, Len(edges) - 1))
         \o <<edges[Len(edges)].tag_a, edges[Len(edges)].tag_b>>

NoGraph(type, normalized, text) ==
    [isNull |-> FALSE, type |-> type, normalizedEdges |-> normalized,
     nodes |-> <<>>, links |-> <<>>, message |-> text]

\* Array.from(nodeSet).map(id => ({ id, ..., size: Math.sqrt(nodeWeights.get(id) || 1) * 0.5 + 4 })):
\* the size is kept as the number whose square root it is taken from
TagNodes(ids, nodeWeights) ==
    [i \in 1..Len(ids) |->
        [id   |-> ids[i],
         size |-> [sqrtOf |-> IF GetOrZero(nodeWeights, ids[i]) = 0 THEN 1
                              ELSE GetOrZero(nodeWeights, ids[i])]]]

RenderTagNetwork(allEdges, threshold) ==
    IF Len(allEdges) = 0 THEN NoGraph("tag-cooccurrence", <<>>, "No edges")
    ELSE LET normalized == NormalizedEdges(allEdges)
             edges == SelectSeq(normalized, LAMBDA e : AtLeast(e.normalizedWeight, threshold))
         IN  IF Len(edges) = 0
             THEN NoGraph("tag-cooccurrence", normalized, "No edges above threshold")
             ELSE [isNull |-> FALSE, type |-> "tag-cooccurrence",
                   normalizedEdges |-> normalized,
                   nodes |-> TagNodes(Distinct(Endpoints(edges)), NodeWeights(allEdges)),
                   links |-> [i \in 1..Len(edges) |->
                                 [source |-> edges[i].tag_a, target |-> edges[i].tag_b,
                                  weight |-> edges[i].normalizedWeight]],
                   message |-> ""]

\* the loop that fills authorSubs: the authors in order of first encounter,
\* each with its communities in order of first encounter and its post count in each
AuthorSubs(ps) ==
    LET firsts == SelectSeq([i \in 1..Len(ps) |-> i],
                            LAMBDA i : \A j \in 1..(i - 1) : ps[j].author_name # ps[i].author_name)
        SubsOf(a) ==
            LET mine == SelectSeq(ps, LAMBDA p : p.author_name = a)
                subs == SelectSeq([j \in 1..Len(mine) |-> j],
                                  LAMBDA j : \A l \in 1..(j - 1) :
                                                mine[l].submolt_name # mine[j].submolt_name)
            IN  [n \in 1..Len(subs) |->
                    [key   |-> mine[subs[n]].submolt_name,
                     value |-> Cardinality({l \in 1..Len(mine) :
                                               mine[l].submolt_name = mine[subs[n]].submolt_name})]]
    IN  [n \in 1..Len(firsts) |->
            [key |-> ps[firsts[n]].author_name, value |-> SubsOf(ps[firsts[n]].author_name)]]

\* variant that leaves the authors in encounter order
KeepEncounterOrder(s) == s

\* .sort((a, b) => b[1].size - a[1].size): descending and stable
RECURSIVE SortBySizeDescending(_)
SortBySizeDescending(s) ==
    IF s = <<>> THEN <<>>
    ELSE LET rest == SortBySizeDescending(SubSeq(s, 1, Len(s) - 1))
             x    == s[Len(s)]
             k    == Cardinality({i \in 1..Len(rest) : Len(rest[i].value) >= Len(x.value)})
         IN  SubSeq(rest, 1, k) \o <<x>> \o SubSeq(rest, k + 1, Len(rest))

\* .slice(0, 20)
MaxBridges == 20

Bridges(ps) ==
    SliceTo(SortBySizeDescending(SelectSeq(AuthorSubs(ps),
                                           LAMBDA en : Len(en.value) >= 2)),
            MaxBridges)

\* variant that never raises maxEdgeWeight
UnitEdgeWeight(bridges) == 1

\* let maxEdgeWeight = 1, raised to the largest count of the bridges
MaxEdgeWeight(bridges) ==
    LET counts == {1} \cup UNION {{c.value : c \in Range(b.value)} : b \in Range(bridges)}
    IN  CHOOSE c \in counts : \A d \in counts : c >= d

\* the (author, community) pairs of the bridges in loop order, from bridge i on
RECURSIVE BridgePairs(_, _, _)
BridgePairs(bridges, maxEdgeWeight, i) ==
    IF i > Len(bridges) THEN <<>>
    ELSE LET subs == bridges[i].value
         IN  [j \in 1..Len(subs) |->
                 [source |-> [group |-> "author", label |-> bridges[i].key],
                  target |-> [group |-> "submolt", label |-> subs[j].key],
                  weight |-> subs[j].value,
                  normalizedWeight |-> Normalize(subs[j].value, maxEdgeWeight)]]
             \o BridgePairs(bridges, maxEdgeWeight, i + 1)

\* nodes.push in loop order: each bridge author, then those of its communities
\* that are not yet in addedSubs
RECURSIVE BridgeNodes(_)
BridgeNodes(bridges) ==
    IF bridges = <<>> THEN <<>>
    ELSE LET front == BridgeNodes(SubSeq(bridges, 1, Len(bridges) - 1))
             last  == bridges[Len(bridges)]
             subs  == [j \in 1..Len(last.value) |->
                          [group |-> "submolt", label |-> last.value[j].key]]
         IN  front \o <<[group |-> "author", label |-> last.key]>>
                   \o SelectSeq(subs, LAMBDA n : n \notin Range(front))

RenderAuthorSubmoltNetwork(ps, threshold) ==
    LET bridges == Bridges(ps)
    IN  IF Len(bridges) = 0 THEN NoGraph("author-submolt", <<>>, "No bridge authors")
        ELSE LET pairs == BridgePairs(bridges, MaxEdgeWeight(bridges), 1)
                 kept  == SelectSeq(pairs, LAMBDA e : AtLeast(e.normalizedWeight, threshold))
             IN  IF Len(kept) = 0
                 THEN NoGraph("author-submolt", pairs, "No edges above threshold")
                 ELSE [isNull |-> FALSE, type |-> "author-submolt",
                       normalizedEdges |-> pairs,
                       nodes |-> BridgeNodes(bridges),
                       links |-> [i \in 1..Len(kept) |->
                                     [source |-> kept[i].source, target |-> kept[i].target,
                                      weight |-> kept[i].normalizedWeight]],
                       message |-> ""]

RenderNetworks(type, allEdges, ps, threshold) ==
    IF type = "tag-cooccurrence" THEN RenderTagNetwork(allEdges, threshold)
    ELSE RenderAuthorSubmoltNetwork(ps, threshold)

-----------------------------------------------------------------------------
(* DataService.getTopItems *)

\* the loop that counts p[field], from post i on
RECURSIVE CountField(_, _, _, _)
CountField(ps, field, i, counts) ==
    IF i > Len(ps) THEN counts
    ELSE CountField(ps, field, i + 1,
                    OMapSet(counts, ps[i][field], GetOrZero(counts, ps[i][field]) + 1))

\* if (displayField) displays.set(p[field], p[displayField]), from post i on;
\* displayField is null or the name of a field
RECURSIVE DisplayField(_, _, _, _, _)
DisplayField(ps, field, displayField, i, displays) ==
    IF i > Len(ps) \/ IsNull(displayField) THEN displays
    ELSE DisplayField(ps, field, displayField, i + 1,
                      OMapSet(displays, ps[i][field], ps[i][displayField.name]))

\* displays.get(name) || name: undefined and the empty string give name
DisplayName(displays, name) ==
    IF OMapHas(displays, name) /\ OMapGet(displays, name) # "" THEN OMapGet(displays, name)
    ELSE name

\* variant that puts an entry before the entries of equal count
RECURSIVE SortByCountTiesReversed(_)
SortByCountTiesReversed(s) ==
    IF s = <<>> THEN <<>>
    ELSE LET rest == SortByCountTiesReversed(SubSeq(s, 1, Len(s) - 1))
             x    == s[Len(s)]
             k    == Cardinality({i \in 1..Len(rest) : rest[i].count > x.count})
         IN  SubSeq(rest, 1, k) \o <<x>> \o SubSeq(rest, k + 1, Len(rest))

\* .sort((a, b) => b.count - a.count): descending and stable
RECURSIVE SortByCountDescending(_)
SortByCountDescending(s) ==
    IF s = <<>> THEN <<>>
    ELSE LET rest == SortByCountDescending(SubSeq(s, 1, Len(s) - 1))
             x    == s[Len(s)]
             k    == Cardinality({i \in 1..Len(rest) : rest[i].count >= x.count})
         IN  SubSeq(rest, 1, k) \o <<x>> \o SubSeq(rest, k + 1, Len(rest))

GetTopItems(ps, field, limit, displayField) ==
    LET counts   == CountField(ps, field, 1, <<>>)
        displays == DisplayField(ps, field, displayField, 1, <<>>)
        entries  == [i \in 1..Len(counts) |->
                        [name |-> counts[i].key, count |-> counts[i].value,
                         displayName |-> DisplayName(displays, counts[i].key)]]
    IN  SliceTo(SortByCountDescending(entries), limit)

-----------------------------------------------------------------------------
(* DataService.sortPosts.  A created_at value is a sequence of characters.  *)

\* the characters of the timestamps and of the tag prefixes, in collation order
Collation == <<"-", "0", "1", "2", "9", "a", "b", "e", "h", "o", "r", "t">>

CharRank(c) == CHOOSE i \in 1..Len(Collation) : Collation[i] = c

\* a.localeCompare(b) on such strings: -1, 0 or 1, character by character
RECURSIVE LocaleCompare(_, _)
LocaleCompare(a, b) ==
    IF a = <<>> /\ b = <<>> THEN 0
    ELSE IF a = <<>> THEN -1
    ELSE IF b = <<>> THEN 1
    ELSE IF CharRank(Head(a)) < CharRank(Head(b)) THEN -1
    ELSE IF CharRank(Head(a)) > CharRank(Head(b)) THEN 1
    ELSE LocaleCompare(Tail(a), Tail(b))

\* the comparator passed to sorted.sort
SortComparator(a, b, field, asc) ==
    LET cmp == IF field = "created_at" THEN LocaleCompare(a.created_at, b.created_at)
               ELSE a[field] - b[field]
    IN  IF asc THEN cmp ELSE -cmp

\* Array.prototype.sort with that comparator: stable
RECURSIVE SortWith(_, _, _)
SortWith(s, field, asc) ==
    IF s = <<>> THEN <<>>
    ELSE LET rest == SortWith(SubSeq(s, 1, Len(s) - 1), field, asc)
             x    == s[Len(s)]
             k    == Cardinality({i \in 1..Len(rest) :
                                     SortComparator(rest[i], x, field, asc) <= 0})
         IN  SubSeq(rest, 1, k) \o <<x>> \o SubSeq(rest, k + 1, Len(rest))

Reverse(s) == [i \in 1..Len(s) |-> s[Len(s) + 1 - i]]

\* variant that sorts ascending and reverses the result for descending
SortPostsByReversal(ps, field, asc) ==
    [returned |-> IF asc THEN SortWith(ps, field, TRUE) ELSE Reverse(SortWith(ps, field, TRUE)),
     posts    |-> ps]

\* sorted = [...posts]; sorted.sort(...); return sorted.
\* returned is the value returned, posts the argument array after the call.
SortPosts(ps, field, asc) ==
    [returned |-> SortWith(ps, field, asc), posts |-> ps]

-----------------------------------------------------------------------------
(* DataService.findDuplicates.  A call either returns a value or throws.    *)

Returned(v) == [threw |-> FALSE, value |-> v]

\* reading a property of null or undefined
TypeError == [threw |-> TRUE, error |-> "TypeError"]

\* a string field that is null or undefined: a value that is no string of
\* characters
NoString == <<"null">>

\* String.prototype.trim, the white space being the space character
RECURSIVE TrimStart(_)
TrimStart(s) == IF s # <<>> /\ Head(s) = " " THEN TrimStart(Tail(s)) ELSE s

RECURSIVE TrimEnd(_)
TrimEnd(s) ==
    IF s # <<>> /\ s[Len(s)] = " " THEN TrimEnd(SubSeq(s, 1, Len(s) - 1)) ELSE s

Trim(s) == TrimEnd(TrimStart(s))

\* variant that measures the title before trimming it
DuplicateKeyLengthUntrimmed(title) == Len(title)

\* key.length for key = p.title.toLowerCase().trim()
DuplicateKeyLength(title) == Len(Trim(ToLowerCase(title)))

\* if (key.length < 10) continue
MinKeyLength == 10

\* the Map groups after the loop over the posts: one entry per key of at
\* least MinKeyLength characters, in the order the keys first occur, holding
\* the posts with that key in input order
GroupByTitle(ps) ==
    LET key    == [i \in 1..Len(ps) |-> Trim(ToLowerCase(ps[i].title))]
        firsts == SelectSeq([i \in 1..Len(ps) |-> i], LAMBDA i :
                      /\ ~(DuplicateKeyLength(ps[i].title) < MinKeyLength)
                      /\ \A j \in 1..(i - 1) :
                            key[j] = key[i] => DuplicateKeyLength(ps[j].title) < MinKeyLength)
    IN  [g \in 1..Len(firsts) |->
            [key   |-> key[firsts[g]],
             value |-> SelectSeq(ps, LAMBDA p :
                           /\ ~(DuplicateKeyLength(p.title) < MinKeyLength)
                           /\ Trim(ToLowerCase(p.title)) = key[firsts[g]])]]

\* .slice(0, 20)
MaxDuplicateGroups == 20

FindDuplicates(ps) ==
    IF \E i \in 1..Len(ps) : ps[i].title = NoString THEN TypeError
    ELSE LET groups  == GroupByTitle(ps)
             several == SelectSeq(groups, LAMBDA g : Len(g.value) > 1)
             entries == [i \in 1..Len(several) |->
                            [title |-> several[i].key, count |-> Len(several[i].value),
                             posts |-> several[i].value]]
         IN  Returned(SliceTo(SortByCountDescending(entries), MaxDuplicateGroups))

-----------------------------------------------------------------------------
(* DataService.findOutliers *)

\* byUp.slice(0, 10), p.upvotes > 10
TopUpvoted == 10

UpvoteThreshold == 10

\* byLen.slice(0, 5), p.content_len > 5000
TopLongest == 5

LengthThreshold == 5000

\* variant that reports a value equal to the threshold
ReachesThreshold(v, threshold) == v >= threshold

\* p.upvotes > 10, p.content_len > 5000
ExceedsThreshold(v, threshold) == v > threshold

\* one scan: the first top posts of the descending sort by field whose value
\* exceeds the threshold, each tagged type
OutlierScan(ps, field, top, threshold, type) ==
    LET sorted == SortWith(ps, field, FALSE)
        kept   == SelectSeq(SliceTo(sorted, top),
                            LAMBDA p : ExceedsThreshold(p[field], threshold))
    IN  [i \in 1..Len(kept) |-> [type |-> type, post |-> kept[i], value |-> kept[i][field]]]

FindOutliers(ps) ==
    OutlierScan(ps, "upvotes", TopUpvoted, UpvoteThreshold, "High Upvotes")
        \o OutlierScan(ps, "content_len", TopLongest, LengthThreshold, "Long Content")

-----------------------------------------------------------------------------
(* DataService.getAllTagsGrouped.  A tag is a sequence of characters.       *)

\* s.split(sep) for a one-character separator
Split(s, sep) ==
    LET seps  == SelectSeq([i \in 1..Len(s) |-> i], LAMBDA i : s[i] = sep)
        From(k) == IF k = 1 THEN 1 ELSE seps[k - 1] + 1
        To(k)   == IF k = Len(seps) + 1 THEN Len(s) ELSE seps[k] - 1
    IN  [k \in 1..(Len(seps) + 1) |-> SubSeq(s, From(k), To(k))]

\* 'other'
Other == <<"o", "t", "h", "e", "r">>

\* parts.length > 1 ? parts[0] : 'other'
TagPrefix(tag) ==
    LET parts == Split(tag, ":")
    IN  IF Len(parts) > 1 THEN parts[1] ELSE Other

\* the loop that fills groups, from Tag row i on
RECURSIVE TagGroupsFrom(_, _, _)
TagGroupsFrom(rows, i, groups) ==
    IF i > Len(rows) THEN groups
    ELSE LET tag    == rows[i].tag
             prefix == TagPrefix(tag)
             tagMap == IF OMapHas(groups, prefix) THEN OMapGet(groups, prefix) ELSE <<>>
         IN  TagGroupsFrom(rows, i + 1,
                           OMapSet(groups, prefix, OMapSet(tagMap, tag, GetOrZero(tagMap, tag) + 1)))

\* variant that orders the buckets by descending prefix
RECURSIVE SortByPrefixDescending(_)
SortByPrefixDescending(s) ==
    IF s = <<>> THEN <<>>
    ELSE LET rest == SortByPrefixDescending(SubSeq(s, 1, Len(s) - 1))
             x    == s[Len(s)]
             k    == Cardinality({i \in 1..Len(rest) : LocaleCompare(rest[i].prefix, x.prefix) >= 0})
         IN  SubSeq(rest, 1, k) \o <<x>> \o SubSeq(rest, k + 1, Len(rest))

\* result.sort((a, b) => a.prefix.localeCompare(b.prefix)): ascending and stable
RECURSIVE SortByPrefix(_)
SortByPrefix(s) ==
    IF s = <<>> THEN <<>>
    ELSE LET rest == SortByPrefix(SubSeq(s, 1, Len(s) - 1))
             x    == s[Len(s)]
             k    == Cardinality({i \in 1..Len(rest) : LocaleCompare(rest[i].prefix, x.prefix) <= 0})
         IN  SubSeq(rest, 1, k) \o <<x>> \o SubSeq(rest, k + 1, Len(rest))

GetAllTagsGrouped(rows) ==
    LET groups == TagGroupsFrom(rows, 1, <<>>)
        TagsOf(tagMap) ==
            SortByCountDescending([j \in 1..Len(tagMap) |->
                                      [name |-> tagMap[j].key, count |-> tagMap[j].value]])
    IN  SortByPrefix([i \in 1..Len(groups) |->
                         [prefix |-> groups[i].key, tags |-> TagsOf(groups[i].value)]])

-----------------------------------------------------------------------------
(* DataService.buildIndexes: the communities by name and the groups of posts *)

\* new Map(this.submolts.map(s => [s.submolt_name, s]))
RECURSIVE MapBySubmoltName(_, _, _)
MapBySubmoltName(subs, i, m) ==
    IF i > Len(subs) THEN m
    ELSE MapBySubmoltName(subs, i + 1, OMapSet(m, subs[i].submolt_name, subs[i]))

BuildSubmoltByName(subs) == MapBySubmoltName(subs, 1, <<>>)

\* variant that puts each post in front of its group
RECURSIVE GroupPostsPrepending(_, _, _, _)
GroupPostsPrepending(ps, field, i, m) ==
    IF i > Len(ps) THEN m
    ELSE LET p   == ps[i]
             arr == IF OMapHas(m, p[field]) THEN OMapGet(m, p[field]) ELSE <<>>
         IN  GroupPostsPrepending(ps, field, i + 1, OMapSet(m, p[field], <<p>> \o arr))

\* the loop over this.posts for one of its two maps, from post i on:
\* arr = map.get(p[field]) || []; arr.push(p); map.set(p[field], arr)
RECURSIVE GroupPostsBy(_, _, _, _)
GroupPostsBy(ps, field, i, m) ==
    IF i > Len(ps) THEN m
    ELSE LET p   == ps[i]
             arr == IF OMapHas(m, p[field]) THEN OMapGet(m, p[field]) ELSE <<>>
         IN  GroupPostsBy(ps, field, i + 1, OMapSet(m, p[field], Append(arr, p)))

BuildPostsBySubmolt(ps) == GroupPostsBy(ps, "submolt_name", 1, <<>>)

BuildPostsByAuthor(ps) == GroupPostsBy(ps, "author_name", 1, <<>>)

-----------------------------------------------------------------------------
(* DataService.filterPosts on posts whose title or content may be null *)

\* evaluating p.title.toLowerCase().includes(q) || p.content.toLowerCase().includes(q)
\*            || p.author_name.toLowerCase().includes(q)
\* throws when it reaches toLowerCase of a field that is null or undefined;
\* || evaluates its right side only when the left side is false
SearchThrows(p, q) ==
    \/ p.title = NoString
    \/ /\ ~Includes(ToLowerCase(p.title), q)
       /\ \/ p.content = NoString
          \/ /\ ~Includes(ToLowerCase(p.content), q)
             /\ p.author_name = NoString

\* filterPosts as a call that returns its result or throws
FilterPostsOutcome(corpus, tagIdx, noteIdx, f) ==
    LET r1 == FilterSubmolts(corpus, f)
        r2 == FilterAuthors(r1, f)
        r3 == FilterTags(r2, f, tagIdx)
        r4 == FilterClassNotes(r3, f, noteIdx)
        r5 == FilterMinUpvotes(r4, f)
        r6 == FilterMinComments(r5, f)
    IN  IF f.search # <<>> /\ \E i \in 1..Len(r6) : SearchThrows(r6[i], ToLowerCase(f.search))
        THEN TypeError
        ELSE Returned(FilterPostIds(FilterSearch(r6, f), f))

-----------------------------------------------------------------------------
(* StateService.  A selected post is Null or Sel(id); a post id is never    *)
(* a falsy value.  The text of a hash is a sequence of tokens: the braces   *)
(* and the members of a JSON object, each member a record of its key and    *)
(* its value under the name of the value's type.                            *)

Sel(id) == [isNull |-> FALSE, id |-> id]

\* StateService.filters as declared
DefaultState ==
    [submolts |-> <<>>, authors |-> <<>>, tags |-> <<>>, classNotes |-> <<>>,
     engagement |-> [minUpvotes |-> 0, minComments |-> 0],
     search |-> <<>>, postIds |-> Null, selectedPost |-> Null, tab |-> "overview"]

\* clearFilters: this.filters = { ...defaults, tab: currentTab }
ClearedFilters(f) == [DefaultState EXCEPT !.tab = f.tab]

\* list.indexOf(v): the first position of v, 0 when there is none
IndexOf(list, v) ==
    IF \E i \in 1..Len(list) : list[i] = v
    THEN CHOOSE i \in 1..Len(list) : list[i] = v /\ \A j \in 1..(i - 1) : list[j] # v
    ELSE 0

\* list.splice(idx, 1)
Splice(list, idx) == SubSeq(list, 1, idx - 1) \o SubSeq(list, idx + 1, Len(list))

\* variant that pushes the value whether or not it is selected
ToggleByPush(list, v) == Append(list, v)

\* const idx = list.indexOf(v); if (idx >= 0) list.splice(idx, 1); else list.push(v);
Toggle(list, v) ==
    LET idx == IndexOf(list, v)
    IN  IF idx > 0 THEN Splice(list, idx) ELSE Append(list, v)

\* the object saveToHash builds, as the members in the order they are set
StateObject(f) ==
    (IF Len(f.submolts) # 0 THEN <<[key |-> "s", strs |-> f.submolts]>> ELSE <<>>)
    \o (IF Len(f.authors) # 0 THEN <<[key |-> "a", seqs |-> f.authors]>> ELSE <<>>)
    \o (IF Len(f.tags) # 0 THEN <<[key |-> "t", strs |-> f.tags]>> ELSE <<>>)
    \o (IF Len(f.classNotes) # 0 THEN <<[key |-> "n", strs |-> f.classNotes]>> ELSE <<>>)
    \o (IF f.engagement.minUpvotes > 0
        THEN <<[key |-> "u", num |-> f.engagement.minUpvotes]>> ELSE <<>>)
    \o (IF f.engagement.minComments > 0
        THEN <<[key |-> "c", num |-> f.engagement.minComments]>> ELSE <<>>)
    \o (IF f.search # <<>> THEN <<[key |-> "q", str |-> f.search]>> ELSE <<>>)
    \o (IF ~IsNull(f.selectedPost) THEN <<[key |-> "p", post |-> f.selectedPost.id]>> ELSE <<>>)
    \o (IF f.tab # "" /\ f.tab # "overview" THEN <<[key |-> "tab", name |-> f.tab]>> ELSE <<>>)

\* JSON.stringify of an object
JsonStringify(members) == <<[t |-> "{"]>> \o members \o <<[t |-> "}"]>>

\* encodeURIComponent: every token of a JSON text holds reserved characters
EncodeURIComponent(text) == [i \in 1..Len(text) |-> [pct |-> text[i]]]

\* variant that never writes the selected post
SaveToHashWithoutPost(f) ==
    LET state == SelectSeq(StateObject(f), LAMBDA m : m.key # "p")
    IN  IF Len(state) > 0
        THEN <<[t |-> "#"]>> \o EncodeURIComponent(JsonStringify(state))
        ELSE <<>>

\* the hash saveToHash hands to history.replaceState
SaveToHash(f) ==
    LET state == StateObject(f)
    IN  IF Len(state) > 0
        THEN <<[t |-> "#"]>> \o EncodeURIComponent(JsonStringify(state))
        ELSE <<>>

URIError == [threw |-> TRUE, error |-> "URIError"]

SyntaxError == [threw |-> TRUE, error |-> "SyntaxError"]

\* decodeURIComponent: a "%" that starts no escape sequence throws
DecodeURIComponent(s) ==
    IF \E i \in 1..Len(s) : s[i] = [t |-> "%"] THEN URIError
    ELSE Returned([i \in 1..Len(s) |-> IF "pct" \in DOMAIN s[i] THEN s[i].pct ELSE s[i]])

\* JSON.parse: an object (its members), null, or a SyntaxError
JsonParse(text) ==
    IF text = <<[t |-> "null"]>> THEN Returned(Null)
    ELSE IF /\ Len(text) >= 2
            /\ text[1] = [t |-> "{"] /\ text[Len(text)] = [t |-> "}"]
            /\ \A i \in 2..(Len(text) - 1) : "key" \in DOMAIN text[i]
         THEN Returned([isNull |-> FALSE, members |-> SubSeq(text, 2, Len(text) - 1)])
         ELSE SyntaxError

\* whether state[key] is truthy: of a repeated key the last member counts
HasTruthy(members, key) ==
    \E i \in 1..Len(members) :
        /\ members[i].key = key
        /\ \A j \in (i + 1)..Len(members) : members[j].key # key
        /\ "null" \notin DOMAIN members[i]
        /\ "num" \in DOMAIN members[i] => members[i].num # 0
        /\ "str" \in DOMAIN members[i] => members[i].str # <<>>
        /\ "name" \in DOMAIN members[i] => members[i].name # ""

\* state[key]
Prop(members, key) ==
    members[CHOOSE i \in 1..Len(members) :
                /\ members[i].key = key
                /\ \A j \in (i + 1)..Len(members) : members[j].key # key]

\* variant that resets the fields the hash does not mention
LoadFromHashResetting(f, h) ==
    IF h = <<>> \/ Len(h) < 2 THEN f
    ELSE LET decoded == DecodeURIComponent(Tail(h))
             parsed  == JsonParse(decoded.value)
             state   == parsed.value.members
             Has(k)  == HasTruthy(state, k)
         IN  IF decoded.threw \/ parsed.threw \/ IsNull(parsed.value) THEN f
             ELSE [submolts   |-> IF Has("s") THEN Prop(state, "s").strs ELSE <<>>,
                   authors    |-> IF Has("a") THEN Prop(state, "a").seqs ELSE <<>>,
                   tags       |-> IF Has("t") THEN Prop(state, "t").strs ELSE <<>>,
                   classNotes |-> IF Has("n") THEN Prop(state, "n").strs ELSE <<>>,
                   engagement |->
                       [minUpvotes  |-> IF Has("u") THEN Prop(state, "u").num ELSE 0,
                        minComments |-> IF Has("c") THEN Prop(state, "c").num ELSE 0],
                   search       |-> IF Has("q") THEN Prop(state, "q").str ELSE <<>>,
                   postIds      |-> Null,
                   selectedPost |-> IF Has("p") THEN Sel(Prop(state, "p").post) ELSE Null,
                   tab          |-> IF Has("tab") THEN Prop(state, "tab").name ELSE "overview"]

\* loadFromHash: the filters after it, f being the filters before
LoadFromHash(f, h) ==
    IF h = <<>> \/ Len(h) < 2 THEN f
    ELSE LET decoded == DecodeURIComponent(Tail(h))
             parsed  == JsonParse(decoded.value)
             state   == parsed.value.members
             Has(k)  == HasTruthy(state, k)
         IN  IF decoded.threw \/ parsed.threw \/ IsNull(parsed.value) THEN f
             ELSE [submolts   |-> IF Has("s") THEN Prop(state, "s").strs ELSE f.submolts,
                   authors    |-> IF Has("a") THEN Prop(state, "a").seqs ELSE f.authors,
                   tags       |-> IF Has("t") THEN Prop(state, "t").strs ELSE f.tags,
                   classNotes |-> IF Has("n") THEN Prop(state, "n").strs ELSE f.classNotes,
                   engagement |->
                       [minUpvotes  |-> IF Has("u") THEN Prop(state, "u").num
                                        ELSE f.engagement.minUpvotes,
                        minComments |-> IF Has("c") THEN Prop(state, "c").num
                                        ELSE f.engagement.minComments],
                   search       |-> IF Has("q") THEN Prop(state, "q").str ELSE f.search,
                   postIds      |-> f.postIds,
                   selectedPost |-> IF Has("p") THEN Sel(Prop(state, "p").post)
                                    ELSE f.selectedPost,
                   tab          |-> IF Has("tab") THEN Prop(state, "tab").name ELSE f.tab]

-----------------------------------------------------------------------------
(* renderIntegrity and renderCurrentTab *)

\* dups.slice(0, 8), outliers.slice(0, 8)
MaxListed == 8

\* !p.title || p.title.trim().length === 0, and the same of p.content
IsMissing(s) == s = NoString \/ Trim(s) = <<>>

\* what the integrity view shows when its scans run over the posts ps
IntegrityOf(ps) ==
    LET dups == FindDuplicates(ps)
    IN  IF dups.threw THEN TypeError
        ELSE Returned(
               [tab            |-> "integrity",
                total          |-> Len(ps),
                missingTitle   |-> Len(SelectSeq(ps, LAMBDA p : IsMissing(p.title))),
                missingContent |-> Len(SelectSeq(ps, LAMBDA p : IsMissing(p.content))),
                duplicates     |-> SliceTo(dups.value, MaxListed),
                outliers       |-> SliceTo(FindOutliers(ps), MaxListed)])

\* variant that scans the posts it is passed
RenderIntegrityOfPassed(ps, all) == IntegrityOf(ps)

\* renderIntegrity(posts): const all = DataService.posts
RenderIntegrity(ps, all) == IntegrityOf(all)

\* a loaded value that is no array: null or an object
NotASequence == <<[notASequence |-> TRUE]>>

\* renderNetworks(posts): reading .length of null, or iterating an object, throws
NetworksView(ps) ==
    IF currentNetworkType = "tag-cooccurrence" /\ tagEdges = NotASequence THEN TypeError
    ELSE Returned([tab   |-> "networks",
                   graph |-> RenderNetworks(currentNetworkType, tagEdges, ps,
                                            edgeThresholdPercent)])

\* renderCurrentTab(): of the other tabs only which posts they were drawn from
RenderCurrentTab(tab, ps, all) ==
    IF tab = "integrity" THEN RenderIntegrity(ps, all)
    ELSE IF tab = "networks" THEN NetworksView(ps)
    ELSE Returned([tab |-> tab, posts |-> ps])

-----------------------------------------------------------------------------
(* DataService.getTopTags and getTopClassNotes; the arrays passed to queries *)

\* the rows the index holds for the posts ps, post after post
RECURSIVE RowsOf(_, _)
RowsOf(ps, idx) ==
    IF ps = <<>> THEN <<>>
    ELSE RowsOf(SubSeq(ps, 1, Len(ps) - 1), idx) \o MapGet(idx, ps[Len(ps)].post_id, <<>>)

\* the counts of the values of a field of the rows, ranked and cut
TopOfRows(rows, field, limit) ==
    LET counts  == CountField(rows, field, 1, <<>>)
        entries == [i \in 1..Len(counts) |->
                       [name |-> counts[i].key, count |-> counts[i].value]]
    IN  SliceTo(SortByCountDescending(entries), limit)

GetTopTags(ps, tagIdx, limit) == TopOfRows(RowsOf(ps, tagIdx), "tag", limit)

GetTopClassNotes(ps, noteIdx, limit) == TopOfRows(RowsOf(ps, noteIdx), "class_note", limit)

\* variant of findOutliers that sorts the array it is passed
OutliersArgumentSorted(ps) == SortWith(ps, "content_len", FALSE)

\* the array passed to findOutliers, after the call: byUp and byLen are sorted
\* copies [...posts]
OutliersArgument(ps) == ps

-----------------------------------------------------------------------------
(* The corpora and filter specifications of the filter scenario *)

PostA == [post_id |-> 1, title |-> <<"A", "b">>, content |-> <<"a", " ", "b">>,
          author_name |-> <<"a", "b">>, submolt_name |-> "m1",
          upvotes |-> 5, comment_count |-> 5]
PostB == [post_id |-> 2, title |-> <<>>, content |-> <<"b">>,
          author_name |-> <<"B">>, submolt_name |-> "m1",
          upvotes |-> 12, comment_count |-> 8]
PostC == [post_id |-> 3, title |-> <<"b", " ", "a">>, content |-> <<>>,
          author_name |-> <<"a", "b">>, submolt_name |-> "m2",
          upvotes |-> 20, comment_count |-> 3]
PostD == [post_id |-> 4, title |-> <<"B">>, content |-> <<"A">>,
          author_name |-> <<"B">>, submolt_name |-> "m3",
          upvotes |-> 3, comment_count |-> 0]

PostPool == {PostA, PostB, PostC, PostD}

\* sequences of at most n posts of the pool with pairwise different post_id
RECURSIVE Corpora(_)
Corpora(n) ==
    IF n = 0 THEN {<<>>}
    ELSE LET shorter == Corpora(n - 1)
             longest == {c \in shorter : Len(c) = n - 1}
             Fresh(c) == {p \in PostPool : \A i \in 1..Len(c) : c[i].post_id # p.post_id}
         IN  shorter \cup UNION {{Append(c, p) : p \in Fresh(c)} : c \in longest}

TagRows == <<[post_id |-> 1, tag |-> "t1"], [post_id |-> 3, tag |-> "t2"],
             [post_id |-> 1, tag |-> "t2"], [post_id |-> 9, tag |-> "t1"]>>

ClassNoteRows == <<[post_id |-> 2, class_note |-> "n1"],
                   [post_id |-> 3, class_note |-> "n2"],
                   [post_id |-> 3, class_note |-> "n1"]>>

FilterSpecs ==
    [submolts   : {<<>>, <<"m1">>, <<"m2", "m1">>},
     authors    : {<<>>, << <<"a", "b">> >>},
     tags       : {<<>>, <<"t1">>, <<"t2", "t3">>},
     classNotes : {<<>>, <<"n1">>},
     engagement : [minUpvotes : {-1, 0, 10}, minComments : {0, 5}],
     search     : {<<>>, <<" ">>, <<"a">>, <<"B">>},
     postIds    : {Null, Arr(<<>>), Arr(<<2, 9>>)}]

DefaultFilters ==
    [submolts |-> <<>>, authors |-> <<>>, tags |-> <<>>, classNotes |-> <<>>,
     engagement |-> [minUpvotes |-> 0, minComments |-> 0],
     search |-> <<>>, postIds |-> Null]

\* the parts of the state a scenario does not use

\* the communities and the groups of posts per community and per author
NoPostGroups ==
    /\ submolts = <<>> /\ submoltByName = <<>>
    /\ postsBySubmolt = <<>> /\ postsByAuthor = <<>>

NoCorpus ==
    /\ posts = <<>> /\ postTags = <<>> /\ postClassNotes = <<>>
    /\ tagEdges = <<>> /\ submoltUmap = <<>> /\ postEmbeddings = <<>>
    /\ postById = <<>> /\ embeddingByPostId = <<>>
    /\ tagsByPostId = EmptyMap /\ classNotesByPostId = EmptyMap
    /\ NoPostGroups

NoSimilar == similarArgs = [postId |-> 0, limit |-> 0] /\ similar = <<>>

NoPlot == plot = Null /\ selStart = Null /\ selected = Null

NoQuery == query = Null /\ answer = Null

\* no hash, nothing rendered, and the loading of the session is not followed
NoSession ==
    /\ hash = <<>> /\ view = Null /\ currentTab = "overview"
    /\ loaded = 0 /\ indexBuilds = 0 /\ evaluated = FALSE

\* let edgeThresholdPercent = 10
DefaultThreshold == 10

NoNetwork ==
    /\ currentNetworkType = "tag-cooccurrence"
    /\ edgeThresholdPercent = DefaultThreshold
    /\ network = Null

NoFilter == filters = DefaultFilters /\ currentPosts = <<>> /\ refiltered = <<>>

NoHistogram == histArgs = [posts |-> <<>>, field |-> "upvotes", bins |-> 1] /\ hist = <<>>

InitFilter ==
    /\ NoSession
    /\ pc = "filter"
    /\ NoHistogram /\ NoSimilar /\ NoPlot /\ NoNetwork /\ NoQuery
    /\ posts \in Corpora(MaxPosts)
    /\ postTags = TagRows
    /\ postClassNotes = ClassNoteRows
    /\ tagEdges = <<>> /\ submoltUmap = <<>> /\ postEmbeddings = <<>>
    /\ postById = <<>> /\ embeddingByPostId = <<>>
    /\ tagsByPostId = BuildTagsByPostId(postTags)
    /\ classNotesByPostId = BuildClassNotesByPostId(postClassNotes)
    /\ NoPostGroups
    /\ filters \in FilterSpecs
    /\ currentPosts = <<>>
    /\ refiltered = <<>>

\* currentPosts = DataService.filterPosts(filters), then the same call on the result
CallFilterPosts ==
    /\ pc = "filter"
    /\ pc' = "filtered"
    /\ currentPosts' = FilterPosts(posts, tagsByPostId, classNotesByPostId, filters)
    /\ refiltered' = FilterPosts(currentPosts', tagsByPostId, classNotesByPostId, filters)
    /\ UNCHANGED <<corpusVars, sessionVars, queryVars, filters, histVars, similarVars, plotVars, networkVars>>

NextFilter == CallFilterPosts

SpecFilter == InitFilter /\ [][NextFilter]_vars

-----------------------------------------------------------------------------
(* Filter engine: properties *)

\* the tags (class notes) of a post, read off the raw rows
TagsOf(p) == {postTags[i].tag : i \in {j \in 1..Len(postTags) : postTags[j].post_id = p.post_id}}

ClassNotesOf(p) ==
    {postClassNotes[i].class_note :
        i \in {j \in 1..Len(postClassNotes) : postClassNotes[j].post_id = p.post_id}}

\* the conjunction of the active predicates other than free text
Satisfies(p, f) ==
    /\ f.submolts # <<>> => p.submolt_name \in Range(f.submolts)
    /\ f.authors # <<>> => p.author_name \in Range(f.authors)
    /\ f.tags # <<>> => TagsOf(p) \cap Range(f.tags) # {}
    /\ f.classNotes # <<>> => ClassNotesOf(p) \cap Range(f.classNotes) # {}
    /\ f.engagement.minUpvotes > 0 => p.upvotes >= f.engagement.minUpvotes
    /\ f.engagement.minComments > 0 => p.comment_count >= f.engagement.minComments
    /\ (~IsNull(f.postIds) /\ f.postIds.ids # <<>>) => p.post_id \in Range(f.postIds.ids)

AllEmpty(f) ==
    /\ f.submolts = <<>> /\ f.authors = <<>> /\ f.tags = <<>> /\ f.classNotes = <<>>
    /\ f.engagement.minUpvotes <= 0 /\ f.engagement.minComments <= 0
    /\ f.search = <<>>
    /\ (IsNull(f.postIds) \/ f.postIds.ids = <<>>)

\* C1: with an empty search string filterPosts returns exactly the posts that
\* satisfy every active predicate, as the subsequence of the corpus in corpus
\* order; the all-empty specification returns the whole corpus.
C1_FilterConjunction ==
    (pc = "filtered" /\ filters.search = <<>>) =>
        /\ currentPosts = SelectSeq(posts, LAMBDA p : Satisfies(p, filters))
        /\ AllEmpty(filters) => currentPosts = posts

C1_Witness ==
    /\ pc = "filtered" /\ filters.search = <<>>
    /\ filters.submolts # <<>> /\ filters.tags # <<>>
    /\ filters.engagement.minUpvotes > 0
    /\ Len(currentPosts) = 1 /\ Len(posts) = 3

\* C2: filtering the result of filterPosts again with the same specification
\* and the same indexes yields the same sequence.
C2_FilterIdempotent == pc = "filtered" => refiltered = currentPosts

C2_Witness ==
    /\ pc = "filtered"
    /\ filters.search # <<>> /\ ~IsNull(filters.postIds) /\ filters.postIds.ids # <<>>
    /\ Len(currentPosts) = 1 /\ Len(posts) = 3 /\ refiltered = currentPosts

\* a string of whitespace only (the empty string included)
IsBlank(s) == \A i \in 1..Len(s) : s[i] = " "

TextMatch(p, search) ==
    LET q == ToLowerCase(search)
    IN  \/ Includes(ToLowerCase(p.title), q)
        \/ Includes(ToLowerCase(p.content), q)
        \/ Includes(ToLowerCase(p.author_name), q)

\* C3 as claimed: the free-text predicate is skipped when the search string is
\* empty or blank; otherwise a post is kept iff the lower-cased search string
\* is a substring of its lower-cased title, content or author_name.
C3_BlankSearchSkipped ==
    pc = "filtered" =>
        currentPosts = SelectSeq(posts, LAMBDA p :
            Satisfies(p, filters) /\ (IsBlank(filters.search) \/ TextMatch(p, filters.search)))

\* C3 amended: the free-text predicate is skipped only when the search string
\* is empty; any other string, whitespace-only ones included, keeps a post iff
\* the lower-cased string is a substring of its lower-cased title, content or
\* author_name.
C3_EmptySearchSkipped ==
    pc = "filtered" =>
        currentPosts = SelectSeq(posts, LAMBDA p :
            Satisfies(p, filters) /\ (filters.search = <<>> \/ TextMatch(p, filters.search)))

\* a whitespace-only search that removes a post the empty search keeps
C3_Witness ==
    /\ pc = "filtered" /\ filters.search = <<" ">>
    /\ Len(currentPosts) = 1
    /\ Len(FilterPosts(posts, tagsByPostId, classNotesByPostId,
                       [filters EXCEPT !.search = <<>>])) = 3

-----------------------------------------------------------------------------
(* The histogram scenario *)

InitHistogram ==
    /\ NoSession
    /\ pc = "histogram"
    /\ NoCorpus /\ NoFilter /\ NoSimilar /\ NoPlot /\ NoNetwork /\ NoQuery
    /\ \E n \in 0..MaxHistPosts :
          histArgs \in [posts : [1..n -> [upvotes : 0..MaxValue]],
                        field : {"upvotes"},
                        bins : (1..SmallBins) \cup {DefaultBins, MaxBins}]
    /\ hist = <<>>

\* DataService.getHistogram(posts, field, bins)
CallGetHistogram ==
    /\ pc = "histogram"
    /\ pc' = "histogram done"
    /\ hist' = GetHistogram(histArgs.posts, histArgs.field, histArgs.bins)
    /\ UNCHANGED <<corpusVars, sessionVars, queryVars, filterVars, histArgs, similarVars, plotVars, networkVars>>

NextHistogram == CallGetHistogram

SpecHistogram == InitHistogram /\ [][NextHistogram]_vars

-----------------------------------------------------------------------------
(* Histogram: properties *)

HistValues == [n \in 1..Len(histArgs.posts) |-> histArgs.posts[n][histArgs.field]]

HistMin == MathMin(HistValues)

HistMax == MathMax(HistValues)

\* the bins + 1 bucket edges min + i * binSize, i = 0..bins, as computed
RECURSIVE EdgesFrom(_, _, _, _)
EdgesFrom(min, binSize, bins, i) ==
    IF i > bins THEN <<>>
    ELSE <<BinLo(min, binSize, i)>> \o EdgesFrom(min, binSize, bins, i + 1)

HistEdges == EdgesFrom(HistMin, NumDiv(HistMax - HistMin, histArgs.bins), histArgs.bins, 0)

\* with edges E, the value v is counted in bucket i (from 0) of bins buckets
CountedIn(E, bins, v, i) == InBin(v, E[i + 1], E[i + 2], i = 0, i = bins - 1)

\* the returned counts are the numbers of values counted in each bucket
CountsAgree(E, bins, values, h) ==
    /\ Len(h) = bins
    /\ \A i \in 0..(bins - 1) :
          h[i + 1].count = Cardinality({n \in 1..Len(values) : CountedIn(E, bins, values[n], i)})

RECURSIVE SumCounts(_, _)
SumCounts(h, i) == IF i > Len(h) THEN 0 ELSE h[i].count + SumCounts(h, i + 1)

InExactlyOneBucket(E, bins, values, h) ==
    /\ CountsAgree(E, bins, values, h)
    /\ \A n \in 1..Len(values) :
          Cardinality({i \in 0..(bins - 1) : CountedIn(E, bins, values[n], i)}) = 1

\* C4: for a non-empty input and any number of bins >= 1 the bucket counts sum
\* to the number of input posts and every input value is counted in exactly
\* one bucket.
C4_HistogramPartition ==
    (pc = "histogram done" /\ Len(histArgs.posts) > 0) =>
        /\ SumCounts(hist, 1) = Len(histArgs.posts)
        /\ HistMin < HistMax =>
              InExactlyOneBucket(HistEdges, histArgs.bins, HistValues, hist)

\* the value v lies exactly on edge number i (from 0) of E
OnEdge(E, v, i) == IsInteger(E[i + 1]) /\ Floor(E[i + 1]) = v

EdgeInLowerBucket(E, bins, values, h, max) ==
    /\ CountsAgree(E, bins, values, h)
    /\ \A n \in 1..Len(values) : \A i \in 0..(bins - 2) :
          OnEdge(E, values[n], i + 1) => CountedIn(E, bins, values[n], i)
    /\ CountedIn(E, bins, max, bins - 1)

EdgeInUpperBucket(E, bins, values, h, max) ==
    /\ CountsAgree(E, bins, values, h)
    /\ \A n \in 1..Len(values) : \A i \in 0..(bins - 2) :
          OnEdge(E, values[n], i + 1) =>
              CountedIn(E, bins, values[n], i + 1) /\ ~CountedIn(E, bins, values[n], i)
    /\ \A i \in 0..(bins - 2) : ~CountedIn(E, bins, max, i)
    /\ CountedIn(E, bins, max, bins - 1) <=> NumLe(max, E[bins + 1])

-----------------------------------------------------------------------------
(* The similarity scenario *)

\* posts 1..3 exist; id 4 has an embedding but no post, id 5 is unknown
SimilarPosts == <<[post_id |-> 1], [post_id |-> 2], [post_id |-> 3]>>

EmbeddingIds == 1..4

AnchorIds == 1..5

Coordinates == {<<0, 0>>, <<1, 0>>, <<0, 1>>, <<5, 5>>}

\* sequences of at most n embedding rows with pairwise different post_id
RECURSIVE EmbeddingRows(_)
EmbeddingRows(n) ==
    IF n = 0 THEN {<<>>}
    ELSE LET shorter == EmbeddingRows(n - 1)
             longest == {e \in shorter : Len(e) = n - 1}
             Fresh(e) == {id \in EmbeddingIds : \A i \in 1..Len(e) : e[i].post_id # id}
         IN  shorter \cup
             UNION {{Append(e, [post_id |-> id, x |-> c[1], y |-> c[2]]) :
                        id \in Fresh(e), c \in Coordinates} : e \in longest}

InitSimilar ==
    /\ NoSession
    /\ pc = "similar"
    /\ NoFilter /\ NoHistogram /\ NoPlot /\ NoNetwork /\ NoQuery
    /\ posts = SimilarPosts
    /\ postTags = <<>> /\ postClassNotes = <<>> /\ tagEdges = <<>> /\ submoltUmap = <<>>
    /\ postEmbeddings \in EmbeddingRows(MaxEmbeddings)
    /\ postById = BuildPostById(posts)
    /\ embeddingByPostId = BuildEmbeddingByPostId(postEmbeddings)
    /\ tagsByPostId = EmptyMap /\ classNotesByPostId = EmptyMap
    /\ NoPostGroups
    /\ similarArgs \in [postId : AnchorIds, limit : 0..MaxLimit]
    /\ similar = <<>>

\* DataService.findSimilarPosts(postId, limit)
CallFindSimilarPosts ==
    /\ pc = "similar"
    /\ pc' = "similar done"
    /\ similar' = FindSimilarPosts(embeddingByPostId, postById,
                                   similarArgs.postId, similarArgs.limit)
    /\ UNCHANGED <<corpusVars, sessionVars, queryVars, filterVars, histVars, similarArgs, plotVars, networkVars>>

NextSimilar == CallFindSimilarPosts

SpecSimilar == InitSimilar /\ [][NextSimilar]_vars

-----------------------------------------------------------------------------
(* Similarity search: properties *)

HasEmbedding(id) == \E i \in 1..Len(postEmbeddings) : postEmbeddings[i].post_id = id

EmbeddingOf(id) ==
    postEmbeddings[CHOOSE i \in 1..Len(postEmbeddings) : postEmbeddings[i].post_id = id]

\* squared distance of post id's embedding from the anchor's
FromAnchor(id) == Dist2(EmbeddingOf(id), EmbeddingOf(similarArgs.postId))

\* C6: findSimilarPosts(anchor, k) never contains the anchor, contains at most
\* k posts, every returned post has an embedding, and the posts are listed in
\* non-decreasing distance of their embedding from the anchor's.
C6_NearestSorted ==
    pc = "similar done" =>
        /\ \A i \in 1..Len(similar) : similar[i].post_id # similarArgs.postId
        /\ Len(similar) <= similarArgs.limit
        /\ \A i \in 1..Len(similar) : HasEmbedding(similar[i].post_id)
        /\ \A i, j \in 1..Len(similar) :
              i < j => FromAnchor(similar[i].post_id) <= FromAnchor(similar[j].post_id)

\* two neighbours at different distances, the nearer one first
C6_Witness ==
    /\ pc = "similar done" /\ similarArgs.limit = 2 /\ Len(postEmbeddings) = 3
    /\ Len(similar) = 2
    /\ FromAnchor(similar[1].post_id) < FromAnchor(similar[2].post_id)
    /\ postEmbeddings[1].post_id = similar[2].post_id

-----------------------------------------------------------------------------
(* The rectangle selection scenario: one plot, one drag gesture *)

PlotPosts == <<PostA, PostB, PostC, PostD>>

\* the plotted position of point i, in data coordinates
PointX == <<0, 10, 0, 25>>

PointY == <<0, 10, 10, 0>>

SubmoltNames == <<"m1", "m2", "m3", "m9">>

\* sequences of at most n pairwise different point numbers
RECURSIVE PointLists(_)
PointLists(n) ==
    IF n = 0 THEN {<<>>}
    ELSE LET shorter == PointLists(n - 1)
             longest == {l \in shorter : Len(l) = n - 1}
         IN  shorter \cup
             UNION {{Append(l, i) : i \in (1..Len(PointX)) \ Range(l)} : l \in longest}

UmapRows(l) ==
    [k \in 1..Len(l) |-> [submolt_name |-> SubmoltNames[l[k]], x |-> PointX[l[k]], y |-> PointY[l[k]]]]

EmbeddingRowsOf(l) ==
    [k \in 1..Len(l) |-> [post_id |-> l[k], x |-> PointX[l[k]], y |-> PointY[l[k]]]]

\* container.clientWidth, container.clientHeight
SpacesPlot == [isNull |-> FALSE, kind |-> "spaces", width |-> 260, height |-> 240]

EmbeddingsPlot == [isNull |-> FALSE, kind |-> "embeddings", width |-> 280, height |-> 280]

\* pointer positions: on, just off and well off the plotted positions
PointerXs == {90, 93, 95, 96, 140, 190}

PointerYs(kind) ==
    IF kind = "spaces" THEN {70, 75, 76, 117, 120, 170} ELSE {90, 95, 96, 137, 140, 190}

MouseEvents == [shiftKey : BOOLEAN, button : {0, 2}]

\* the subscriber registered with StateService.onChange
OnChange(f) == FilterPosts(posts, tagsByPostId, classNotesByPostId, f)

InitSelect ==
    /\ NoSession
    /\ pc = "plot"
    /\ NoHistogram /\ NoSimilar /\ NoNetwork /\ NoQuery
    /\ posts = PlotPosts
    /\ postTags = <<>> /\ postClassNotes = <<>> /\ tagEdges = <<>>
    /\ postById = BuildPostById(posts)
    /\ tagsByPostId = EmptyMap /\ classNotesByPostId = EmptyMap
    /\ NoPostGroups
    /\ \E l \in PointLists(MaxPoints) :
          \/ /\ submoltUmap = UmapRows(l) /\ postEmbeddings = <<>>
             /\ plot = IF l = <<>> THEN Null ELSE SpacesPlot
             /\ \E subs \in {<<>>, <<"m1">>} : filters = [DefaultFilters EXCEPT !.submolts = subs]
          \/ /\ submoltUmap = <<>> /\ postEmbeddings = EmbeddingRowsOf(l)
             /\ plot = IF l = <<>> THEN Null ELSE EmbeddingsPlot
             /\ \E ids \in {Null, Arr(<<2>>)} : filters = [DefaultFilters EXCEPT !.postIds = ids]
    /\ embeddingByPostId = BuildEmbeddingByPostId(postEmbeddings)
    /\ currentPosts = OnChange(filters)
    /\ refiltered = <<>>
    /\ selStart = Null
    /\ selected = Null

\* renderSpaces: svg.on('mousedown')
SpacesMouseDown ==
    /\ pc = "plot" /\ ~IsNull(plot) /\ plot.kind = "spaces"
    /\ \E e \in MouseEvents, mx \in PointerXs, my \in PointerYs("spaces") :
          /\ e.shiftKey \/ e.button = 0
          /\ selStart' = [isNull |-> FALSE, x |-> mx, y |-> my]
    /\ pc' = "dragging"
    /\ UNCHANGED <<corpusVars, sessionVars, queryVars, filterVars, histVars, similarVars, plot, selected, networkVars>>

\* renderSpaces: svg.on('mouseup')
SpacesMouseUp ==
    /\ pc = "dragging" /\ plot.kind = "spaces" /\ ~IsNull(selStart)
    /\ \E mx \in PointerXs, my \in PointerYs("spaces") :
          LET r    == DragRect(selStart, mx, my)
              drag == IsDrag(r.x0, r.y0, r.x1, r.y1)
              ids  == IF drag THEN SpacesSelected(submoltUmap, plot, r) ELSE <<>>
          IN  /\ selected' = [isNull |-> FALSE, rect |-> r, ids |-> ids]
              /\ IF drag /\ Len(ids) > 0
                 THEN /\ filters' = [filters EXCEPT !.submolts = ids]
                      /\ currentPosts' = OnChange(filters')
                 ELSE UNCHANGED <<filters, currentPosts>>
    /\ selStart' = Null
    /\ pc' = "released"
    /\ UNCHANGED <<corpusVars, sessionVars, queryVars, refiltered, histVars, similarVars, plot, networkVars>>

\* renderEmbeddings: svg.on('mousedown')
EmbeddingsMouseDown ==
    /\ pc = "plot" /\ ~IsNull(plot) /\ plot.kind = "embeddings"
    /\ \E e \in MouseEvents, mx \in PointerXs, my \in PointerYs("embeddings") :
          /\ e.shiftKey
          /\ selStart' = [isNull |-> FALSE, x |-> mx, y |-> my]
    /\ pc' = "dragging"
    /\ UNCHANGED <<corpusVars, sessionVars, queryVars, filterVars, histVars, similarVars, plot, selected, networkVars>>

\* renderEmbeddings: svg.on('mouseup')
EmbeddingsMouseUp ==
    /\ pc = "dragging" /\ plot.kind = "embeddings" /\ ~IsNull(selStart)
    /\ \E mx \in PointerXs, my \in PointerYs("embeddings") :
          LET r    == DragRect(selStart, mx, my)
              drag == IsDrag(r.x0, r.y0, r.x1, r.y1)
              ids  == IF drag THEN EmbeddingsSelected(postEmbeddings, plot, r) ELSE <<>>
          IN  /\ selected' = [isNull |-> FALSE, rect |-> r, ids |-> ids]
              /\ IF drag /\ Len(ids) > 0
                 THEN /\ filters' = [filters EXCEPT !.postIds = Arr(ids)]
                      /\ currentPosts' = OnChange(filters')
                 ELSE UNCHANGED <<filters, currentPosts>>
    /\ selStart' = Null
    /\ pc' = "released"
    /\ UNCHANGED <<corpusVars, sessionVars, queryVars, refiltered, histVars, similarVars, plot, networkVars>>

NextSelect ==
    \/ SpacesMouseDown
    \/ SpacesMouseUp
    \/ EmbeddingsMouseDown
    \/ EmbeddingsMouseUp

SpecSelect == InitSelect /\ [][NextSelect]_vars

-----------------------------------------------------------------------------
(* Rectangle selection: properties *)

\* the plotted points: id and position in the plot, as fractions
PlottedPoints ==
    IF IsNull(plot) THEN {}
    ELSE IF plot.kind = "spaces"
    THEN {[id |-> d.submolt_name,
           px |-> SpacesXScale(submoltUmap, plot.width, d.x),
           py |-> SpacesYScale(submoltUmap, plot.height, d.y)] : d \in Range(submoltUmap)}
    ELSE {[id |-> d.post_id,
           px |-> EmbeddingsXScale(postEmbeddings, plot.width, d.x),
           py |-> EmbeddingsYScale(postEmbeddings, plot.height, d.y)] : d \in Range(postEmbeddings)}

\* point q is left of, right of, above or below rectangle r
Outside(q, r) ==
    \/ q.px.num < r.x0 * q.px.den
    \/ q.px.num > r.x1 * q.px.den
    \/ q.py.num < r.y0 * q.py.den
    \/ q.py.num > r.y1 * q.py.den

IdsWithin(r) == {q.id : q \in {q \in PlottedPoints : ~Outside(q, r)}}

AllIds == {q.id : q \in PlottedPoints}

\* the ids of the last gesture are exactly those of the points within r
SelectsWithin(r) ==
    /\ Range(selected.ids) = IdsWithin(r)
    /\ Len(selected.ids) = Cardinality(IdsWithin(r))

\* the filter the plot writes to holds the ids of the last gesture
FilterHoldsSelection ==
    IF plot.kind = "spaces" THEN filters.submolts = selected.ids
    ELSE filters.postIds = Arr(selected.ids)

Released == pc = "released"

\* C7 as stated: every rectangle of non-zero width and height, however small,
\* selects exactly the ids of the points within it, edges included.
C7_AnyRectangleSelectsWithin ==
    Released /\ selected.rect.x1 > selected.rect.x0 /\ selected.rect.y1 > selected.rect.y0
        => SelectsWithin(selected.rect)

\* C7: in both plots, a rectangle more than DragThreshold pixels wide and high
\* selects exactly the ids of the points within it, the four edges included,
\* and a non-empty selection becomes the filter; a rectangle that is not more
\* than DragThreshold pixels wide and high selects nothing.
C7_DraggedRectangleSelectsWithin ==
    Released =>
        IF IsDrag(selected.rect.x0, selected.rect.y0, selected.rect.x1, selected.rect.y1)
        THEN /\ SelectsWithin(selected.rect)
             /\ selected.ids # <<>> => FilterHoldsSelection
        ELSE selected.ids = <<>>

\* a drag that selects a point lying on an edge of the rectangle and leaves
\* another point out
C7_Witness ==
    /\ Released
    /\ IsDrag(selected.rect.x0, selected.rect.y0, selected.rect.x1, selected.rect.y1)
    /\ \E q \in PlottedPoints :
          /\ q.id \in Range(selected.ids)
          /\ q.px.num = selected.rect.x1 * q.px.den
    /\ \E q \in PlottedPoints : q.id \notin Range(selected.ids)
    /\ FilterHoldsSelection

ZeroArea(r) == r.x1 = r.x0 \/ r.y1 = r.y0

ContainsAll(r) == PlottedPoints # {} /\ IdsWithin(r) = AllIds

\* C8 as stated: a rectangle of zero width or height selects nothing, and a
\* rectangle (of non-zero width and height) that contains every point selects
\* every id.
C8_ContainingRectangleSelectsAll ==
    Released =>
        /\ ZeroArea(selected.rect) => selected.ids = <<>>
        /\ ~ZeroArea(selected.rect) /\ ContainsAll(selected.rect)
              => Range(selected.ids) = AllIds

\* C8: a gesture whose rectangle has zero width or zero height selects nothing
\* and leaves the filter and the filtered posts as they were; a rectangle more
\* than DragThreshold pixels wide and high that contains every point selects
\* every id and makes them the filter.
C8_DegenerateAndContaining ==
    [][pc = "dragging" /\ pc' = "released" =>
          /\ ZeroArea(selected'.rect) =>
                selected'.ids = <<>> /\ filters' = filters /\ currentPosts' = currentPosts
          /\ (/\ IsDrag(selected'.rect.x0, selected'.rect.y0, selected'.rect.x1, selected'.rect.y1)
              /\ PlottedPoints # {}
              /\ \A q \in PlottedPoints : ~Outside(q, selected'.rect))
                => /\ Range(selected'.ids) = AllIds
                   /\ IF plot.kind = "spaces" THEN filters'.submolts = selected'.ids
                      ELSE filters'.postIds = Arr(selected'.ids)]_vars

\* a zero-width rectangle with a plotted point on it
C8_Witness ==
    /\ Released
    /\ selected.rect.x1 = selected.rect.x0 /\ selected.rect.y1 > selected.rect.y0
    /\ IdsWithin(selected.rect) # {}
    /\ selected.ids = <<>>

-----------------------------------------------------------------------------
(* The networks scenario: the networks tab is open *)

\* a table whose first edge carries 29 of the 100 units of weight of tag "t1"
RoundingTables ==
    {<<[tag_a |-> "t1", tag_b |-> "t2", weight |-> 29],
       [tag_a |-> "t1", tag_b |-> "t3", weight |-> 71]>>}

TagPairs == {<<"t1", "t2">>, <<"t2", "t3">>, <<"t1", "t3">>, <<"t4", "t4">>}

EdgeWeights == {0, 1, 2}

\* sequences of at most n tag edges over pairwise different tag pairs
RECURSIVE TagEdgeTables(_)
TagEdgeTables(n) ==
    IF n = 0 THEN {<<>>}
    ELSE LET shorter == TagEdgeTables(n - 1)
             longest == {t \in shorter : Len(t) = n - 1}
             Fresh(t) == {pr \in TagPairs : \A i \in 1..Len(t) : <<t[i].tag_a, t[i].tag_b>> # pr}
         IN  shorter \cup
             UNION {{Append(t, [tag_a |-> pr[1], tag_b |-> pr[2], weight |-> w]) :
                        pr \in Fresh(t), w \in EdgeWeights} : t \in longest}

NetworkPostRows == [author_name : {"a1", "a2"}, submolt_name : {"s1", "s2"}]

\* sequences of at most n posts, repetitions allowed
RECURSIVE NetworkPosts(_)
NetworkPosts(n) ==
    IF n = 0 THEN {<<>>}
    ELSE LET shorter == NetworkPosts(n - 1)
             longest == {t \in shorter : Len(t) = n - 1}
         IN  shorter \cup UNION {{Append(t, r) : r \in NetworkPostRows} : t \in longest}

\* values of the threshold slider
Thresholds == {0, 10, 29, 50, 100, 101}

NetworkTypes == {"tag-cooccurrence", "author-submolt"}

InitNetwork ==
    /\ NoSession
    /\ pc = "networks"
    /\ NoHistogram /\ NoSimilar /\ NoPlot /\ NoQuery
    /\ \/ tagEdges \in TagEdgeTables(MaxEdges) \cup RoundingTables /\ posts = <<>>
       \/ tagEdges = <<>> /\ posts \in NetworkPosts(MaxNetworkPosts)
    /\ postTags = <<>> /\ postClassNotes = <<>>
    /\ submoltUmap = <<>> /\ postEmbeddings = <<>>
    /\ postById = <<>> /\ embeddingByPostId = <<>>
    /\ tagsByPostId = EmptyMap /\ classNotesByPostId = EmptyMap
    /\ NoPostGroups
    /\ filters = DefaultFilters
    /\ currentPosts = posts
    /\ refiltered = <<>>
    /\ currentNetworkType = "tag-cooccurrence"
    /\ edgeThresholdPercent = DefaultThreshold
    /\ network = RenderNetworks(currentNetworkType, tagEdges, currentPosts, edgeThresholdPercent)

\* the 'change' listener of the network-type selector
NetworkTypeChange ==
    /\ pc = "networks"
    /\ \E type \in NetworkTypes :
          /\ currentNetworkType' = type
          /\ network' = RenderNetworks(type, tagEdges, currentPosts, edgeThresholdPercent)
    /\ UNCHANGED <<pc, corpusVars, sessionVars, queryVars, filterVars, histVars, similarVars, plotVars,
                   edgeThresholdPercent>>

\* the 'input' listener of the threshold slider; t is parseInt of the slider's value
EdgeThresholdInput ==
    /\ pc = "networks"
    /\ \E t \in Thresholds :
          /\ edgeThresholdPercent' = t
          /\ network' = RenderNetworks(currentNetworkType, tagEdges, currentPosts, t)
    /\ UNCHANGED <<pc, corpusVars, sessionVars, queryVars, filterVars, histVars, similarVars, plotVars,
                   currentNetworkType>>

NextNetwork ==
    \/ NetworkTypeChange
    \/ EdgeThresholdInput

SpecNetwork == InitNetwork /\ [][NextNetwork]_vars

-----------------------------------------------------------------------------
(* Networks: properties *)

TagGraph == ~IsNull(network) /\ network.type = "tag-cooccurrence"

AuthorGraph == ~IsNull(network) /\ network.type = "author-submolt"

\* how many endpoints of edge e are tag t
Touches(e, t) == (IF e.tag_a = t THEN 1 ELSE 0) + (IF e.tag_b = t THEN 1 ELSE 0)

\* the sum of the weights of the edges touching tag t, from edge i on
RECURSIVE IncidentWeight(_, _)
IncidentWeight(t, i) ==
    IF i > Len(tagEdges) THEN 0
    ELSE tagEdges[i].weight * Touches(tagEdges[i], t) + IncidentWeight(t, i + 1)

\* the total weight of the heavier endpoint of edge i
HeavierEndpoint(i) ==
    Max2(IncidentWeight(tagEdges[i].tag_a, 1), IncidentWeight(tagEdges[i].tag_b, 1))

IsZero(x) == ~x.nan /\ Floor(x.digits) = 0 /\ IsInteger(x.digits)

\* 0 < x <= 100
InPercentRange(x) ==
    /\ ~x.nan
    /\ ~IsZero(x)
    /\ Floor(x.digits) < Percent \/ (Floor(x.digits) = Percent /\ IsInteger(x.digits))

\* C9 as stated: every tag edge of non-negative weight, and every
\* author-community edge, has a normalized weight in (0, 100].
C9_NormalizedInPercentRange ==
    ~IsNull(network) =>
        \A i \in 1..Len(network.normalizedEdges) :
            InPercentRange(network.normalizedEdges[i].normalizedWeight)

\* C9: a tag edge's normalized weight is weight / M * 100 with M the larger
\* of its endpoints' total incident weights; it lies in (0, 100] when the
\* weight is positive, is 0 when the weight is 0 and M is positive, and is NaN
\* when M is 0.  Every author-community edge's normalized weight is in (0, 100].
C9_NormalizedByHeavierEndpoint ==
    /\ TagGraph =>
          /\ Len(network.normalizedEdges) = Len(tagEdges)
          /\ \A i \in 1..Len(tagEdges) :
                LET w == tagEdges[i].weight
                    M == HeavierEndpoint(i)
                    x == network.normalizedEdges[i].normalizedWeight
                IN  /\ M > 0 => ~x.nan /\ x.digits = NumMul(Percent, NumDiv(w, M))
                    /\ w > 0 => InPercentRange(x)
                    /\ w = 0 /\ M > 0 => IsZero(x)
                    /\ M = 0 => x.nan
    /\ AuthorGraph =>
          \A i \in 1..Len(network.normalizedEdges) :
              InPercentRange(network.normalizedEdges[i].normalizedWeight)

\* a tag graph with an edge at a fractional percentage, an edge of weight 0
\* normalized to 0 and an edge whose normalized weight is NaN
C9_Witness ==
    /\ TagGraph
    /\ \E i, j, k \in 1..Len(network.normalizedEdges) :
          /\ ~network.normalizedEdges[i].normalizedWeight.nan
          /\ ~IsInteger(network.normalizedEdges[i].normalizedWeight.digits)
          /\ network.normalizedEdges[j].weight = 0
          /\ IsZero(network.normalizedEdges[j].normalizedWeight)
          /\ network.normalizedEdges[k].normalizedWeight.nan

\* the (author, community) pairs of the authors with posts in two or more
\* communities
AuthorCommunities(a) ==
    {currentPosts[i].submolt_name : i \in {i \in 1..Len(currentPosts) : currentPosts[i].author_name = a}}

BridgeAuthors ==
    {a \in {currentPosts[i].author_name : i \in 1..Len(currentPosts)} :
        Cardinality(AuthorCommunities(a)) >= 2}

InputPairs == {<<a, c>> : a \in BridgeAuthors, c \in UNION {AuthorCommunities(b) : b \in BridgeAuthors}}
                  \cap UNION {{<<a, c>> : c \in AuthorCommunities(a)} : a \in BridgeAuthors}

LinkEnds == {<<network.links[i].source, network.links[i].target>> : i \in 1..Len(network.links)}

\* C10 as stated: at threshold 0 every input edge survives; above 100, none.
C10_ZeroKeepsEveryEdge ==
    /\ TagGraph /\ edgeThresholdPercent = 0 => Len(network.links) = Len(tagEdges)
    /\ AuthorGraph /\ edgeThresholdPercent = 0 /\ Cardinality(BridgeAuthors) <= MaxBridges
          => Len(network.links) = Cardinality(InputPairs)
    /\ ~IsNull(network) /\ edgeThresholdPercent > Percent => network.links = <<>>

\* C10: at threshold 0 the tag graph keeps, in order, exactly the input edges
\* whose heavier endpoint has a positive total weight (an edge between tags
\* that carry no weight at all is dropped), and the author-community graph
\* keeps every (author, community) pair of its bridge authors; at a threshold
\* above 100 neither graph keeps an edge.
C10_ZeroKeepsWeightedEdges ==
    /\ TagGraph /\ edgeThresholdPercent = 0 =>
          LET live == SelectSeq([i \in 1..Len(tagEdges) |-> i], LAMBDA i : HeavierEndpoint(i) > 0)
          IN  /\ Len(network.links) = Len(live)
              /\ \A k \in 1..Len(live) :
                    /\ network.links[k].source = tagEdges[live[k]].tag_a
                    /\ network.links[k].target = tagEdges[live[k]].tag_b
    /\ AuthorGraph /\ edgeThresholdPercent = 0 /\ Cardinality(BridgeAuthors) <= MaxBridges =>
          /\ Len(network.links) = Cardinality(InputPairs)
          /\ LinkEnds = {<<[group |-> "author", label |-> pr[1]],
                           [group |-> "submolt", label |-> pr[2]]>> : pr \in InputPairs}
    /\ ~IsNull(network) /\ edgeThresholdPercent > Percent => network.links = <<>>

\* a tag graph at threshold 0 that keeps an edge of weight 0 and drops another
C10_Witness ==
    /\ TagGraph /\ edgeThresholdPercent = 0
    /\ Len(network.links) = 2 /\ Len(tagEdges) = 3
    /\ \E i \in 1..Len(network.links) : IsZero(network.links[i].weight)

-----------------------------------------------------------------------------
(* The ranking scenario: getTopItems *)

TopRows ==
    {[author_name |-> "a", submolt_name |-> "m1", submolt_display_name |-> "M"],
     [author_name |-> "b", submolt_name |-> "m1", submolt_display_name |-> ""],
     [author_name |-> "c", submolt_name |-> "m2", submolt_display_name |-> "M2"],
     [author_name |-> "a", submolt_name |-> "m2", submolt_display_name |-> ""]}

\* sequences of at most n rows, repetitions allowed
RECURSIVE TopPosts(_)
TopPosts(n) ==
    IF n = 0 THEN {<<>>}
    ELSE LET shorter == TopPosts(n - 1)
             longest == {t \in shorter : Len(t) = n - 1}
         IN  shorter \cup UNION {{Append(t, r) : r \in TopRows} : t \in longest}

InitTopItems ==
    /\ NoSession
    /\ pc = "getTopItems"
    /\ NoCorpus /\ NoFilter /\ NoHistogram /\ NoSimilar /\ NoPlot /\ NoNetwork
    /\ \E ps \in TopPosts(MaxTopPosts), limit \in 0..MaxTopLimit :
          \/ query = [isNull |-> FALSE, op |-> "getTopItems", posts |-> ps,
                      field |-> "author_name", limit |-> limit, displayField |-> Null]
          \/ query = [isNull |-> FALSE, op |-> "getTopItems", posts |-> ps,
                      field |-> "submolt_name", limit |-> limit,
                      displayField |-> [isNull |-> FALSE, name |-> "submolt_display_name"]]
    /\ answer = Null

\* DataService.getTopItems(posts, field, limit, displayField)
CallGetTopItems ==
    /\ pc = "getTopItems"
    /\ pc' = "getTopItems done"
    /\ answer' = GetTopItems(query.posts, query.field, query.limit, query.displayField)
    /\ UNCHANGED <<corpusVars, sessionVars, query, filterVars, histVars, similarVars, plotVars, networkVars>>

NextTopItems == CallGetTopItems

SpecTopItems == InitTopItems /\ [][NextTopItems]_vars

-----------------------------------------------------------------------------
(* getTopItems: properties *)

TopValues == {query.posts[i][query.field] : i \in 1..Len(query.posts)}

TopCount(v) == Cardinality({i \in 1..Len(query.posts) : query.posts[i][query.field] = v})

FirstSeen(v) ==
    CHOOSE i \in 1..Len(query.posts) :
        /\ query.posts[i][query.field] = v
        /\ \A j \in 1..(i - 1) : query.posts[j][query.field] # v

\* value v ranks before value w
RanksBefore(v, w) ==
    \/ TopCount(v) > TopCount(w)
    \/ TopCount(v) = TopCount(w) /\ FirstSeen(v) < FirstSeen(w)

\* C11: getTopItems returns one entry per distinct field value with the number
\* of input posts having that value, ordered by count descending and, among
\* equal counts, by first occurrence in the input, cut to the first limit entries.
C11_TopItemsRanked ==
    pc = "getTopItems done" =>
        /\ Len(answer) = Min2(query.limit, Cardinality(TopValues))
        /\ \A i \in 1..Len(answer) :
              /\ answer[i].name \in TopValues
              /\ answer[i].count = TopCount(answer[i].name)
              /\ Cardinality({v \in TopValues : RanksBefore(v, answer[i].name)}) = i - 1

\* a tie between two values, the one seen first ranked first, behind a value
\* that was seen later but more often, and a third tied value cut off by limit
C11_Witness ==
    /\ pc = "getTopItems done"
    /\ query.limit = 2 /\ Len(answer) = 2 /\ Cardinality(TopValues) = 3
    /\ answer[1].count = 2 /\ answer[2].count = 1
    /\ FirstSeen(answer[1].name) > FirstSeen(answer[2].name)

-----------------------------------------------------------------------------
(* The sorting scenario: sortPosts *)

SortRows ==
    {[post_id |-> 1, created_at |-> <<"9">>, upvotes |-> 5],
     [post_id |-> 2, created_at |-> <<"1", "0">>, upvotes |-> 5],
     [post_id |-> 3, created_at |-> <<"1", "0">>, upvotes |-> 7],
     [post_id |-> 4, created_at |-> <<"2", "-", "1">>, upvotes |-> 3],
     [post_id |-> 5, created_at |-> <<"2">>, upvotes |-> 7]}

\* sequences of at most n pairwise different rows
RECURSIVE SortInputs(_)
SortInputs(n) ==
    IF n = 0 THEN {<<>>}
    ELSE LET shorter == SortInputs(n - 1)
             longest == {t \in shorter : Len(t) = n - 1}
         IN  shorter \cup UNION {{Append(t, r) : r \in SortRows \ Range(t)} : t \in longest}

InitSortPosts ==
    /\ NoSession
    /\ pc = "sortPosts"
    /\ NoCorpus /\ NoFilter /\ NoHistogram /\ NoSimilar /\ NoPlot /\ NoNetwork
    /\ \E ps \in SortInputs(MaxSortPosts), field \in {"created_at", "upvotes"}, asc \in BOOLEAN :
          query = [isNull |-> FALSE, op |-> "sortPosts", posts |-> ps,
                   field |-> field, asc |-> asc]
    /\ answer = Null

\* DataService.sortPosts(posts, field, asc)
CallSortPosts ==
    /\ pc = "sortPosts"
    /\ pc' = "sortPosts done"
    /\ LET r == SortPosts(query.posts, query.field, query.asc)
       IN  /\ answer' = r.returned
           /\ query' = [query EXCEPT !.posts = r.posts]
    /\ UNCHANGED <<corpusVars, filterVars, histVars, similarVars, plotVars, networkVars,
                   sessionVars>>

NextSortPosts == CallSortPosts

SpecSortPosts == InitSortPosts /\ [][NextSortPosts]_vars

-----------------------------------------------------------------------------
(* sortPosts: properties *)

\* the position of the post with this id in sequence s
PositionIn(s, id) == CHOOSE i \in 1..Len(s) : s[i].post_id = id

\* post a's field value is smaller than post b's: as strings for created_at,
\* as numbers otherwise
FieldLess(a, b) ==
    IF query.field = "created_at"
    THEN \E k \in 1..(Len(a.created_at) + 1) :
            /\ k <= Len(b.created_at)
            /\ \A j \in 1..(k - 1) : a.created_at[j] = b.created_at[j]
            /\ \/ k = Len(a.created_at) + 1
               \/ CharRank(a.created_at[k]) < CharRank(b.created_at[k])
    ELSE a[query.field] < b[query.field]

\* the returned sequence is a permutation of the input ordered by the chosen
\* field, and posts with equal field values keep their input order
SortedStablePermutation ==
    pc = "sortPosts done" =>
        /\ Len(answer) = Len(query.posts)
        /\ Range(answer) = Range(query.posts)
        /\ \A i, j \in 1..Len(answer) :
              i < j =>
                 /\ query.asc => ~FieldLess(answer[j], answer[i])
                 /\ ~query.asc => ~FieldLess(answer[i], answer[j])
                 /\ ~FieldLess(answer[i], answer[j]) /\ ~FieldLess(answer[j], answer[i])
                       => PositionIn(query.posts, answer[i].post_id)
                            < PositionIn(query.posts, answer[j].post_id)

\* C12: sortPosts returns a permutation of its input ordered by the chosen
\* field, ascending when asc is true and descending otherwise, created_at
\* compared as strings and other fields as numbers; posts with equal field
\* values keep their input order in both directions; and the argument array
\* is after the call as it was before.
C12_SortedStablePermutation ==
    /\ []SortedStablePermutation
    /\ [][pc = "sortPosts" /\ pc' = "sortPosts done" => query'.posts = query.posts]_vars

\* a descending sort that moved a post and kept two posts of equal value in
\* input order
C12_Witness ==
    /\ pc = "sortPosts done" /\ ~query.asc /\ Len(answer) >= 3
    /\ answer # query.posts
    /\ \E i \in 1..(Len(answer) - 1) :
          ~FieldLess(answer[i], answer[i + 1]) /\ ~FieldLess(answer[i + 1], answer[i])

-----------------------------------------------------------------------------
(* The duplicates scenario: findDuplicates *)

Copies(c, n) == [i \in 1..n |-> c]

\* "AB aaaaaaa" and "  ab aaaaaaa " share the key "ab aaaaaaa" (10 characters)
TitleUpper == <<"A", "B", " ">> \o Copies("a", 7)

TitlePadded == <<" ", " ", "a", "b", " ">> \o Copies("a", 7) \o <<" ">>

\* 9 characters, and 9 characters between spaces
TitleShort == Copies("b", 9)

TitlePaddedShort == <<" ">> \o Copies("b", 9) \o <<" ">>

\* exactly 10 characters
TitleTen == Copies("b", 10)

\* the k-th of the long titles that occur twice each
TitleFiller(k) == Copies("a", 10 + k)

\* how many long titles occur twice: none, or about MaxDuplicateGroups
FillerCounts == {0, 19, 20, 21}

\* n posts titled t
Titled(t, n) == [i \in 1..n |-> [title |-> t]]

\* the first k filler titles, once each
FillerRun(k) == [i \in 1..k |-> [title |-> TitleFiller(i)]]

\* the posts numbered in sequence
Numbered(ps) == [i \in 1..Len(ps) |-> [post_id |-> i, title |-> ps[i].title]]

DuplicateInputs ==
    {Numbered(IF fillersFirst
              THEN FillerRun(k) \o FillerRun(k) \o Titled(TitleUpper, u) \o Titled(TitleTen, t)
                   \o Titled(TitlePadded, p) \o Titled(TitleShort, s)
                   \o Titled(TitlePaddedShort, s) \o Titled(NoString, z)
              ELSE Titled(TitleShort, s) \o Titled(TitleTen, t) \o Titled(TitleUpper, u)
                   \o FillerRun(k) \o Titled(TitlePaddedShort, s) \o Titled(TitlePadded, p)
                   \o FillerRun(k) \o Titled(NoString, z)) :
        fillersFirst \in BOOLEAN, k \in FillerCounts, u \in 0..MaxCopies, p \in 0..MaxCopies,
        t \in 0..MaxCopies + 1, s \in 0..MaxCopies, z \in 0..1}

InitDuplicates ==
    /\ NoSession
    /\ pc = "findDuplicates"
    /\ NoCorpus /\ NoFilter /\ NoHistogram /\ NoSimilar /\ NoPlot /\ NoNetwork
    /\ \E ps \in DuplicateInputs :
          query = [isNull |-> FALSE, op |-> "findDuplicates", posts |-> ps]
    /\ answer = Null

\* DataService.findDuplicates(posts)
CallFindDuplicates ==
    /\ pc = "findDuplicates"
    /\ pc' = "findDuplicates done"
    /\ answer' = FindDuplicates(query.posts)
    /\ UNCHANGED <<corpusVars, sessionVars, query, filterVars, histVars, similarVars, plotVars, networkVars>>

NextDuplicates == CallFindDuplicates

SpecDuplicates == InitDuplicates /\ [][NextDuplicates]_vars

-----------------------------------------------------------------------------
(* findDuplicates: properties *)

DuplicatesReturned == pc = "findDuplicates done" /\ ~answer.threw

\* title t without its leading and trailing spaces, in lower case
NormalizedTitle(t) ==
    LET inner == {i \in 1..Len(t) : t[i] # " "}
    IN  IF inner = {} THEN <<>>
        ELSE LET first == CHOOSE i \in inner : \A j \in inner : i <= j
                 last  == CHOOSE i \in inner : \A j \in inner : i >= j
             IN  [i \in 1..(last - first + 1) |-> LowerChar(t[first + i - 1])]

\* C13: findDuplicates returns only groups whose key, the title trimmed and
\* lower-cased, has at least 10 characters and that have at least 2 members;
\* every member of a group has exactly that normalized title; groups are
\* ordered by size descending; at most 20 groups are returned.
C13_DuplicateGroups ==
    DuplicatesReturned =>
        /\ Len(answer.value) <= 20
        /\ \A g \in 1..Len(answer.value) :
              /\ Len(answer.value[g].title) >= 10
              /\ answer.value[g].count >= 2
              /\ Len(answer.value[g].posts) = answer.value[g].count
              /\ \A m \in 1..Len(answer.value[g].posts) :
                    /\ answer.value[g].posts[m] \in Range(query.posts)
                    /\ NormalizedTitle(answer.value[g].posts[m].title) = answer.value[g].title
        /\ \A g, h \in 1..Len(answer.value) :
              g < h => answer.value[g].count >= answer.value[h].count

\* more than 20 titles occur twice or more, a padded and an upper-case title
\* fall into one group, and a title of 9 characters between spaces occurs twice
C13_Witness ==
    /\ DuplicatesReturned
    /\ Len(answer.value) = 20
    /\ Cardinality({NormalizedTitle(query.posts[i].title) : i \in 1..Len(query.posts)}) > 22
    /\ \E g \in 1..Len(answer.value) :
          \E m, n \in 1..Len(answer.value[g].posts) :
              /\ answer.value[g].posts[m].title = TitleUpper
              /\ answer.value[g].posts[n].title = TitlePadded
    /\ Cardinality({i \in 1..Len(query.posts) : query.posts[i].title = TitlePaddedShort}) = 2

-----------------------------------------------------------------------------
(* The outliers scenario: findOutliers *)

\* freely chosen posts: at and above the thresholds
HeadRows == [upvotes : {10, 11, 50}, content_len : {5000, 6000}]

\* n posts that all have 12 upvotes and 5002 characters
TailRun(n) == [i \in 1..n |-> [upvotes |-> 12, content_len |-> 5002]]

TailLengths == {0, 8, 10}

NumberedOutliers(ps) ==
    [i \in 1..Len(ps) |->
        [post_id |-> i, upvotes |-> ps[i].upvotes, content_len |-> ps[i].content_len]]

OutlierInputs ==
    UNION {{NumberedOutliers(IF headFirst THEN head \o TailRun(t) ELSE TailRun(t) \o head) :
               head \in [1..h -> HeadRows], t \in TailLengths, headFirst \in BOOLEAN} :
           h \in 0..MaxOutlierHead}

InitOutliers ==
    /\ NoSession
    /\ pc = "findOutliers"
    /\ NoCorpus /\ NoFilter /\ NoHistogram /\ NoSimilar /\ NoPlot /\ NoNetwork
    /\ \E ps \in OutlierInputs :
          query = [isNull |-> FALSE, op |-> "findOutliers", posts |-> ps]
    /\ answer = Null

\* DataService.findOutliers(posts)
CallFindOutliers ==
    /\ pc = "findOutliers"
    /\ pc' = "findOutliers done"
    /\ answer' = FindOutliers(query.posts)
    /\ UNCHANGED <<corpusVars, sessionVars, query, filterVars, histVars, similarVars, plotVars, networkVars>>

NextOutliers == CallFindOutliers

SpecOutliers == InitOutliers /\ [][NextOutliers]_vars

-----------------------------------------------------------------------------
(* findOutliers: properties *)

\* how many posts come before post i when the posts are ranked by field,
\* greatest first, equal values in input order
RankBy(field, i) ==
    Cardinality({j \in 1..Len(query.posts) :
                    \/ query.posts[j][field] > query.posts[i][field]
                    \/ query.posts[j][field] = query.posts[i][field] /\ j < i})

\* the posts a scan reports: among the first top of the ranking, above the limit
Reported(field, top, limit) ==
    {i \in 1..Len(query.posts) : RankBy(field, i) < top /\ query.posts[i][field] > limit}

\* entries from position offset + 1 on are the reported posts in ranking order
ScanListed(field, top, limit, type, offset) ==
    \A i \in Reported(field, top, limit) :
        LET k == offset + 1
                   + Cardinality({j \in Reported(field, top, limit) :
                                     RankBy(field, j) < RankBy(field, i)})
        IN  /\ k <= Len(answer)
            /\ answer[k] = [type |-> type, post |-> query.posts[i],
                            value |-> query.posts[i][field]]

\* C14: findOutliers returns those of the 10 highest-upvote posts whose upvotes
\* exceed 10, tagged High Upvotes, followed by those of the 5 posts with the
\* greatest content_len whose content_len exceeds 5000, tagged Long Content:
\* at most 15 entries, none for exactly 10 upvotes or exactly 5000 characters,
\* and a post may be reported once under each tag.
C14_OutliersListed ==
    pc = "findOutliers done" =>
        /\ Len(answer) = Cardinality(Reported("upvotes", 10, 10))
                           + Cardinality(Reported("content_len", 5, 5000))
        /\ ScanListed("upvotes", 10, 10, "High Upvotes", 0)
        /\ ScanListed("content_len", 5, 5000, "Long Content",
                      Cardinality(Reported("upvotes", 10, 10)))
        /\ Len(answer) <= 15
        /\ \A k \in 1..Len(answer) : answer[k].value # 10 /\ answer[k].value # 5000

\* 15 entries, more than 10 posts above 10 upvotes, a post with exactly 10
\* upvotes, and a post reported under both tags
C14_Witness ==
    /\ pc = "findOutliers done"
    /\ Len(answer) = 15
    /\ Cardinality({i \in 1..Len(query.posts) : query.posts[i].upvotes > 10}) > 10
    /\ \E i \in 1..Len(query.posts) : query.posts[i].upvotes = 10
    /\ \E k, l \in 1..Len(answer) : k # l /\ answer[k].post = answer[l].post

-----------------------------------------------------------------------------
(* Author-community graphs of many bridge authors: scenario *)

\* how many authors post once in each of two communities: none, or about MaxBridges
BridgeFillers == {0, 19, 20, 21}

PostBy(a, s) == [author_name |-> a, submolt_name |-> s]

\* the k filler authors: their posts in "s1", then their posts in "s2"
FillerPosts(k) ==
    [i \in 1..k |-> PostBy(Copies("a", i), "s1")] \o [i \in 1..k |-> PostBy(Copies("a", i), "s2")]

\* an author of three communities
WidePosts == <<PostBy(<<"x">>, "s1"), PostBy(<<"x">>, "s2"), PostBy(<<"x">>, "s3")>>

\* an author of a single community, with more posts there than anyone
LonePosts == [i \in 1..(MaxHeavy + 1) |-> PostBy(<<"z">>, "s1")]

\* an author of two communities with n posts in the first
HeavyPosts(n) == [i \in 1..n |-> PostBy(<<"y">>, "s1")] \o <<PostBy(<<"y">>, "s2")>>

BridgeInputs ==
    {LET special == (IF x THEN WidePosts ELSE <<>>) \o (IF z THEN LonePosts ELSE <<>>)
                    \o (IF h > 0 THEN HeavyPosts(h) ELSE <<>>)
     IN  IF fillersFirst THEN FillerPosts(k) \o special ELSE special \o FillerPosts(k) :
        k \in BridgeFillers, x \in BOOLEAN, z \in BOOLEAN, h \in 0..MaxHeavy,
        fillersFirst \in BOOLEAN}

InitBridges ==
    /\ NoSession
    /\ pc = "networks"
    /\ NoHistogram /\ NoSimilar /\ NoPlot /\ NoQuery
    /\ tagEdges = <<>> /\ posts \in BridgeInputs
    /\ postTags = <<>> /\ postClassNotes = <<>>
    /\ submoltUmap = <<>> /\ postEmbeddings = <<>>
    /\ postById = <<>> /\ embeddingByPostId = <<>>
    /\ tagsByPostId = EmptyMap /\ classNotesByPostId = EmptyMap
    /\ NoPostGroups
    /\ filters = DefaultFilters
    /\ currentPosts = posts
    /\ refiltered = <<>>
    /\ currentNetworkType = "tag-cooccurrence"
    /\ edgeThresholdPercent = DefaultThreshold
    /\ network = RenderNetworks(currentNetworkType, tagEdges, currentPosts, edgeThresholdPercent)

SpecBridges == InitBridges /\ [][NextNetwork]_vars

-----------------------------------------------------------------------------
(* Author-community graphs of many bridge authors: properties *)

\* the author-community graph was drawn
AuthorGraphDrawn == AuthorGraph /\ network.message = ""

\* the labels of the author nodes, in node order
AuthorNodes ==
    LET ns == SelectSeq(network.nodes, LAMBDA n : n.group = "author")
    IN  [i \in 1..Len(ns) |-> ns[i].label]

FirstPostOf(a) ==
    CHOOSE i \in 1..Len(currentPosts) :
        /\ currentPosts[i].author_name = a
        /\ \A j \in 1..(i - 1) : currentPosts[j].author_name # a

\* how many bridge authors rank before a: more communities, or as many and met earlier
BridgesBefore(a) ==
    Cardinality({b \in BridgeAuthors :
        \/ Cardinality(AuthorCommunities(b)) > Cardinality(AuthorCommunities(a))
        \/ /\ Cardinality(AuthorCommunities(b)) = Cardinality(AuthorCommunities(a))
           /\ FirstPostOf(b) < FirstPostOf(a)})

\* C15: in a drawn author-community graph the author nodes are, in order, the
\* authors with posts in at least 2 distinct communities of the subset
\* ranked by their number of distinct communities (descending, ties in order
\* of first encounter) and cut to the first 20; an author of one community is
\* never a node. The graph is not drawn only when no author qualifies or the
\* threshold is above 100.
C15_BridgeAuthorsCapped ==
    /\ AuthorGraphDrawn =>
          /\ \A i \in 1..Len(AuthorNodes) :
                /\ AuthorNodes[i] \in BridgeAuthors
                /\ BridgesBefore(AuthorNodes[i]) = i - 1
          /\ \A a \in BridgeAuthors :
                BridgesBefore(a) < MaxBridges => a \in Range(AuthorNodes)
          /\ Len(AuthorNodes) <= MaxBridges
    /\ AuthorGraph /\ ~AuthorGraphDrawn =>
          /\ network.nodes = <<>>
          /\ BridgeAuthors = {} \/ edgeThresholdPercent > Percent

\* more than 20 authors qualify, the author of three communities is met after
\* all of them and is the first node, and an author of one community is left out
C15_Witness ==
    /\ AuthorGraphDrawn
    /\ Cardinality(BridgeAuthors) > MaxBridges
    /\ Len(AuthorNodes) = MaxBridges
    /\ AuthorNodes[1] = <<"x">>
    /\ FirstPostOf(<<"x">>) > 2 * MaxBridges
    /\ \E i \in 1..Len(currentPosts) : currentPosts[i].author_name = <<"z">>
    /\ <<"z">> \notin Range(AuthorNodes)

\* the number of posts of author a in community c
PairCount(a, c) ==
    Cardinality({i \in 1..Len(currentPosts) :
        currentPosts[i].author_name = a /\ currentPosts[i].submolt_name = c})

\* the largest post count over the (author, community) pairs of the authors in S
LargestPairCount(S) ==
    LET counts == {PairCount(a, c) : a \in S, c \in UNION {AuthorCommunities(b) : b \in S}}
    IN  CHOOSE m \in counts : \A n \in counts : m >= n

\* every link of the drawn graph weighs count / m * 100
LinksNormalizedBy(m) ==
    \A k \in 1..Len(network.links) :
        LET l == network.links[k]
        IN  l.weight = [nan |-> FALSE,
                        digits |-> NumMul(Percent,
                                          NumDiv(PairCount(l.source.label, l.target.label), m))]

\* C16 as stated: M is the largest count over the pairs of all qualifying authors.
C16_NormalizedOverAllBridges ==
    AuthorGraphDrawn => LinksNormalizedBy(LargestPairCount(BridgeAuthors))

\* C16: each edge of a drawn author-community graph weighs count / M * 100,
\* count the number of posts of the author in the community and M the largest
\* such count over the pairs of the bridge authors kept as nodes (at most 20);
\* the counts of qualifying authors cut by the cap do not enter M.
C16_NormalizedOverKeptBridges ==
    AuthorGraphDrawn => LinksNormalizedBy(LargestPairCount(Range(AuthorNodes)))

\* more than 20 authors qualify and the largest count belongs to one that is cut
C16_Witness ==
    /\ AuthorGraphDrawn
    /\ Cardinality(BridgeAuthors) > MaxBridges
    /\ LargestPairCount(BridgeAuthors) > LargestPairCount(Range(AuthorNodes))
    /\ network.links # <<>>
    /\ LinksNormalizedBy(1)

-----------------------------------------------------------------------------
(* Tag graphs: kept edges and their endpoints *)

\* edge i of the table reaches the threshold: its weight / the total weight of
\* its heavier endpoint * 100 is a number and is at least the threshold
ReachesEdgeThreshold(i) ==
    /\ HeavierEndpoint(i) > 0
    /\ NumLe(edgeThresholdPercent,
             NumMul(Percent, NumDiv(tagEdges[i].weight, HeavierEndpoint(i))))

KeptTagEdges == SelectSeq([i \in 1..Len(tagEdges) |-> i], ReachesEdgeThreshold)

\* the total weight, over the whole table, of the edges touching tag t; 1 when it is 0
WeightOrOne(t) == IF IncidentWeight(t, 1) = 0 THEN 1 ELSE IncidentWeight(t, 1)

\* C17: in the tag co-occurrence graph the links are, in table order, exactly
\* the edges whose normalized weight is at least the threshold percentage; the
\* nodes are exactly the endpoints of those edges, once each; and each node is
\* sized from the total weight of all the table's edges that touch its tag,
\* whatever the threshold.
C17_KeptEdgesAndEndpoints ==
    TagGraph =>
        /\ Len(network.links) = Len(KeptTagEdges)
        /\ \A k \in 1..Len(KeptTagEdges) :
              /\ network.links[k].source = tagEdges[KeptTagEdges[k]].tag_a
              /\ network.links[k].target = tagEdges[KeptTagEdges[k]].tag_b
        /\ {network.nodes[n].id : n \in 1..Len(network.nodes)}
              = UNION {{tagEdges[i].tag_a, tagEdges[i].tag_b} : i \in Range(KeptTagEdges)}
        /\ \A m, n \in 1..Len(network.nodes) :
              network.nodes[m].id = network.nodes[n].id => m = n
        /\ \A n \in 1..Len(network.nodes) :
              network.nodes[n].size.sqrtOf = WeightOrOne(network.nodes[n].id)

\* a drawn tag graph that dropped an edge together with one of its endpoints,
\* and has a node whose weight counts that dropped edge
C17_Witness ==
    /\ TagGraph /\ network.links # <<>>
    /\ \E i \in 1..Len(tagEdges) :
          /\ i \notin Range(KeptTagEdges)
          /\ tagEdges[i].weight > 0
          /\ \E n \in 1..Len(network.nodes) : network.nodes[n].id = tagEdges[i].tag_a
          /\ \A n \in 1..Len(network.nodes) : network.nodes[n].id # tagEdges[i].tag_b

-----------------------------------------------------------------------------
(* getAllTagsGrouped: scenario *)

\* "a:x", "a:x:y", "b:x", "x", "other:x" and ":x"
GroupedTagPool ==
    {<<"a", ":", "x">>, <<"a", ":", "x", ":", "y">>, <<"b", ":", "x">>, <<"x">>,
     Other \o <<":", "x">>, <<":", "x">>}

\* sequences of at most n Tag rows
RECURSIVE GroupedTagRows(_)
GroupedTagRows(n) ==
    IF n = 0 THEN {<<>>}
    ELSE LET shorter == GroupedTagRows(n - 1)
             longest == {t \in shorter : Len(t) = n - 1}
         IN  shorter \cup
             UNION {{Append(t, [post_id |-> Len(t) + 1, tag |-> g]) : g \in GroupedTagPool} :
                       t \in longest}

InitTagGroups ==
    /\ NoSession
    /\ pc = "getAllTagsGrouped"
    /\ posts = <<>> /\ postTags \in GroupedTagRows(MaxTagRows) /\ postClassNotes = <<>>
    /\ tagEdges = <<>> /\ submoltUmap = <<>> /\ postEmbeddings = <<>>
    /\ postById = <<>> /\ embeddingByPostId = <<>>
    /\ tagsByPostId = EmptyMap /\ classNotesByPostId = EmptyMap
    /\ NoPostGroups
    /\ NoFilter /\ NoHistogram /\ NoSimilar /\ NoPlot /\ NoNetwork
    /\ query = [isNull |-> FALSE, op |-> "getAllTagsGrouped"]
    /\ answer = Null

\* DataService.getAllTagsGrouped()
CallGetAllTagsGrouped ==
    /\ pc = "getAllTagsGrouped"
    /\ pc' = "getAllTagsGrouped done"
    /\ answer' = GetAllTagsGrouped(postTags)
    /\ UNCHANGED <<corpusVars, sessionVars, query, filterVars, histVars, similarVars, plotVars, networkVars>>

NextTagGroups == CallGetAllTagsGrouped

SpecTagGroups == InitTagGroups /\ [][NextTagGroups]_vars

-----------------------------------------------------------------------------
(* getAllTagsGrouped: properties *)

TagsGrouped == pc = "getAllTagsGrouped done"

\* the tags of the Tag rows
RowTags == {postTags[i].tag : i \in 1..Len(postTags)}

\* the number of Tag rows carrying tag t
RowCount(t) == Cardinality({i \in 1..Len(postTags) : postTags[i].tag = t})

\* the characters of t before its first ':', or 'other' when it has none
BeforeFirstColon(t) ==
    IF \A i \in 1..Len(t) : t[i] # ":" THEN Other
    ELSE LET first == CHOOSE i \in 1..Len(t) :
                         t[i] = ":" /\ \A j \in 1..(i - 1) : t[j] # ":"
         IN  SubSeq(t, 1, first - 1)

\* the places <<bucket, position>> of the result that list tag t
PlacesOf(t) ==
    {<<i, j>> \in UNION {{<<i, j>> : j \in 1..Len(answer[i].tags)} : i \in 1..Len(answer)} :
        answer[i].tags[j].name = t}

\* C18: getAllTagsGrouped lists every distinct tag of the Tag rows in exactly
\* one bucket, the one whose prefix is the part of the tag before its first
\* ':' ('other' for a tag without ':'), with the number of rows carrying it as
\* its count, and lists nothing else; within a bucket counts never increase,
\* and the buckets come in strictly ascending order of prefix.
C18_TagsGrouped ==
    TagsGrouped =>
        /\ \A t \in RowTags :
              /\ Cardinality(PlacesOf(t)) = 1
              /\ \A pl \in PlacesOf(t) :
                    /\ answer[pl[1]].prefix = BeforeFirstColon(t)
                    /\ answer[pl[1]].tags[pl[2]].count = RowCount(t)
        /\ \A i \in 1..Len(answer) :
              /\ answer[i].tags # <<>>
              /\ \A j \in 1..Len(answer[i].tags) : answer[i].tags[j].name \in RowTags
              /\ \A j \in 1..(Len(answer[i].tags) - 1) :
                    answer[i].tags[j].count >= answer[i].tags[j + 1].count
        /\ \A i \in 1..(Len(answer) - 1) :
              LocaleCompare(answer[i].prefix, answer[i + 1].prefix) < 0

\* the bucket 'other' was met before the bucket "a" and comes after it; it
\* lists "other:x" (2 rows) before "x" (1 row, met first); "a:x:y" is in bucket "a"
C18_Witness ==
    /\ TagsGrouped
    /\ Len(postTags) = 4 /\ postTags[1].tag = <<"x">>
    /\ Len(answer) = 2
    /\ answer[1].prefix = <<"a">>
    /\ answer[1].tags = <<[name |-> <<"a", ":", "x", ":", "y">>, count |-> 1]>>
    /\ answer[2].prefix = Other
    /\ answer[2].tags = <<[name |-> Other \o <<":", "x">>, count |-> 2],
                          [name |-> <<"x">>, count |-> 1]>>

-----------------------------------------------------------------------------
(* buildIndexes: scenario *)

IndexPostRows == [submolt_name : {"s1", "s2"}, author_name : {"a1", "a2"}]

\* sequences of at most n posts, numbered by position
RECURSIVE IndexPosts(_)
IndexPosts(n) ==
    IF n = 0 THEN {<<>>}
    ELSE LET shorter == IndexPosts(n - 1)
             longest == {t \in shorter : Len(t) = n - 1}
         IN  shorter \cup
             UNION {{Append(t, [post_id |-> n, submolt_name |-> r.submolt_name,
                                author_name |-> r.author_name]) : r \in IndexPostRows} :
                       t \in longest}

\* sequences of at most n rows of the given kinds
RECURSIVE IndexRows(_, _)
IndexRows(n, kinds) ==
    IF n = 0 THEN {<<>>}
    ELSE LET shorter == IndexRows(n - 1, kinds)
             longest == {t \in shorter : Len(t) = n - 1}
         IN  shorter \cup UNION {{Append(t, r) : r \in kinds} : t \in longest}

IndexTagRows == [post_id : 1..2, tag : {"t1", "t2"}]

IndexNoteRows == [post_id : 1..2, class_note : {"n1", "n2"}]

FixedPosts ==
    <<[post_id |-> 1, submolt_name |-> "s1", author_name |-> "a1"],
      [post_id |-> 2, submolt_name |-> "s2", author_name |-> "a1"]>>

\* the rows of post 1 surround a row of post 2
FixedTagRows ==
    <<[post_id |-> 1, tag |-> "t1"], [post_id |-> 2, tag |-> "t1"], [post_id |-> 1, tag |-> "t2"]>>

FixedNoteRows ==
    <<[post_id |-> 2, class_note |-> "n1"], [post_id |-> 1, class_note |-> "n1"],
      [post_id |-> 2, class_note |-> "n2"]>>

\* the loaded sequences: one of the posts, Tag rows and ClassNote rows varies
LoadedCorpora ==
    {[posts |-> ps, postTags |-> FixedTagRows, postClassNotes |-> FixedNoteRows] :
        ps \in IndexPosts(MaxIndexPosts)}
    \cup {[posts |-> FixedPosts, postTags |-> ts, postClassNotes |-> <<>>] :
             ts \in IndexRows(MaxIndexRows, IndexTagRows)}
    \cup {[posts |-> FixedPosts, postTags |-> <<>>, postClassNotes |-> ns] :
             ns \in IndexRows(MaxIndexRows, IndexNoteRows)}

\* the sequences are loaded and the indexes are the empty Maps of the object literal
InitIndexes ==
    /\ NoSession
    /\ pc = "loaded"
    /\ \E c \in LoadedCorpora :
          /\ posts = c.posts /\ postTags = c.postTags /\ postClassNotes = c.postClassNotes
    /\ submolts = <<[submolt_name |-> "s1"], [submolt_name |-> "s2"]>>
    /\ tagEdges = <<>> /\ submoltUmap = <<>>
    /\ postEmbeddings = <<[post_id |-> 1, x |-> 0, y |-> 0]>>
    /\ postById = <<>> /\ submoltByName = <<>>
    /\ tagsByPostId = EmptyMap /\ classNotesByPostId = EmptyMap
    /\ embeddingByPostId = <<>>
    /\ postsBySubmolt = <<>> /\ postsByAuthor = <<>>
    /\ NoFilter /\ NoHistogram /\ NoSimilar /\ NoPlot /\ NoNetwork /\ NoQuery

\* DataService.buildIndexes(), run when the sequences are loaded and once more after
BuildIndexes ==
    /\ pc \in {"loaded", "indexed"}
    /\ pc' = IF pc = "loaded" THEN "indexed" ELSE "indexed again"
    /\ postById' = BuildPostById(posts)
    /\ submoltByName' = BuildSubmoltByName(submolts)
    /\ tagsByPostId' = BuildTagsByPostId(postTags)
    /\ classNotesByPostId' = BuildClassNotesByPostId(postClassNotes)
    /\ embeddingByPostId' = BuildEmbeddingByPostId(postEmbeddings)
    /\ postsBySubmolt' = BuildPostsBySubmolt(posts)
    /\ postsByAuthor' = BuildPostsByAuthor(posts)
    /\ UNCHANGED <<posts, postTags, postClassNotes, tagEdges, submoltUmap, postEmbeddings,
                   submolts, sessionVars, queryVars, filterVars, histVars, similarVars, plotVars, networkVars>>

NextIndexes == BuildIndexes

SpecIndexes == InitIndexes /\ [][NextIndexes]_vars

-----------------------------------------------------------------------------
(* buildIndexes: properties *)

Indexed == pc \in {"indexed", "indexed again"}

indexVars == <<postById, submoltByName, tagsByPostId, classNotesByPostId, embeddingByPostId,
               postsBySubmolt, postsByAuthor>>

\* the rows of a sequence whose field has value v, in the order of the sequence
RowsWith(rows, field, v) == SelectSeq(rows, LAMBDA r : r[field] = v)

\* a Map from post ids to arrays holds, for each post id of the rows and for
\* no other key, the rows of that post id in input order
GroupsRowsByPostId(m, rows) ==
    /\ DOMAIN m = {rows[i].post_id : i \in 1..Len(rows)}
    /\ \A id \in DOMAIN m : m[id] = RowsWith(rows, "post_id", id)

\* a Map of groups of posts holds one entry for each value of the field, and
\* the entry of a value is the posts of that value in corpus order
GroupsPostsBy(m, field) ==
    /\ {m[k].key : k \in 1..Len(m)} = {posts[i][field] : i \in 1..Len(posts)}
    /\ \A j, k \in 1..Len(m) : m[j].key = m[k].key => j = k
    /\ \A k \in 1..Len(m) : m[k].value = RowsWith(posts, field, m[k].key)

\* every post of the corpus is in exactly one of the groups
PartitionsCorpus(m) ==
    \A i \in 1..Len(posts) :
        Cardinality({k \in 1..Len(m) : posts[i] \in Range(m[k].value)}) = 1

IndexesExact ==
    Indexed =>
        /\ GroupsRowsByPostId(tagsByPostId, postTags)
        /\ GroupsRowsByPostId(classNotesByPostId, postClassNotes)
        /\ GroupsPostsBy(postsBySubmolt, "submolt_name")
        /\ GroupsPostsBy(postsByAuthor, "author_name")
        /\ PartitionsCorpus(postsBySubmolt)

\* C19: after buildIndexes the tags-by-post-id and class-notes-by-post-id
\* values are exactly the Tag and ClassNote rows of each post id in input
\* order, the posts-by-community and posts-by-author values are exactly the
\* posts of each community and author in corpus order, the per-community
\* groups partition the corpus, and running buildIndexes again on the same
\* sequences leaves every index equal.
C19_IndexesExactAndStable ==
    /\ []IndexesExact
    /\ [][pc = "indexed" /\ pc' = "indexed again" => indexVars' = indexVars]_vars

\* buildIndexes ran twice on a corpus whose two communities alternate, with
\* Tag rows where the rows of post 1 surround one of post 2
C19_Witness ==
    /\ pc = "indexed again"
    /\ Len(posts) = 4
    /\ Len(postsBySubmolt) = 2
    /\ postsBySubmolt[1].value = <<posts[1], posts[3]>>
    /\ postsBySubmolt[2].value = <<posts[2], posts[4]>>
    /\ Len(postsByAuthor) = 2
    /\ postsByAuthor[2].value = <<posts[3], posts[4]>>
    /\ postTags = FixedTagRows
    /\ tagsByPostId[1] = <<postTags[1], postTags[3]>>
    /\ classNotesByPostId[2] = <<postClassNotes[1], postClassNotes[3]>>

-----------------------------------------------------------------------------
(* Posts with an absent title or content: scenario *)

AbsentRows == [title : {NoString, <<"a">>}, content : {NoString, <<"b">>}]

\* sequences of at most n posts, numbered by position, all by author "c"
RECURSIVE AbsentCorpora(_)
AbsentCorpora(n) ==
    IF n = 0 THEN {<<>>}
    ELSE LET shorter == AbsentCorpora(n - 1)
             longest == {t \in shorter : Len(t) = n - 1}
         IN  shorter \cup
             UNION {{Append(t, [post_id |-> n, title |-> r.title, content |-> r.content,
                                author_name |-> <<"c">>, submolt_name |-> "m1",
                                upvotes |-> 0, comment_count |-> 0]) : r \in AbsentRows} :
                       t \in longest}

\* the non-empty search strings
Searches == {<<"a">>, <<"b">>, <<"c">>, <<"A">>}

InitAbsent ==
    /\ NoSession
    /\ posts \in AbsentCorpora(MaxAbsentPosts)
    /\ postTags = <<>> /\ postClassNotes = <<>>
    /\ tagEdges = <<>> /\ submoltUmap = <<>> /\ postEmbeddings = <<>>
    /\ postById = <<>> /\ embeddingByPostId = <<>>
    /\ tagsByPostId = EmptyMap /\ classNotesByPostId = EmptyMap
    /\ NoPostGroups
    /\ NoFilter /\ NoHistogram /\ NoSimilar /\ NoPlot /\ NoNetwork
    /\ \/ /\ pc = "filterPosts"
          /\ \E q \in Searches :
                query = [isNull |-> FALSE, op |-> "filterPosts", posts |-> posts,
                         filters |-> [DefaultFilters EXCEPT !.search = q]]
       \/ /\ pc = "findDuplicates"
          /\ query = [isNull |-> FALSE, op |-> "findDuplicates", posts |-> posts]
    /\ answer = Null

\* DataService.filterPosts(filters) with a search string
CallFilterPostsSearch ==
    /\ pc = "filterPosts"
    /\ pc' = "filterPosts done"
    /\ answer' = FilterPostsOutcome(posts, tagsByPostId, classNotesByPostId, query.filters)
    /\ UNCHANGED <<corpusVars, sessionVars, query, filterVars, histVars, similarVars, plotVars, networkVars>>

NextAbsent ==
    \/ CallFilterPostsSearch
    \/ CallFindDuplicates

SpecAbsent == InitAbsent /\ [][NextAbsent]_vars

-----------------------------------------------------------------------------
(* Posts with an absent title or content: properties *)

QueryDone == pc \in {"filterPosts done", "findDuplicates done"}

\* C20 as stated: filterPosts with a non-empty search string, and
\* findDuplicates, complete normally on a corpus that contains a post whose
\* title or content is absent; the absent value matches nothing and the post
\* without a title is in no group of duplicates.
C20_AbsentFieldsTolerated ==
    QueryDone =>
        /\ ~answer.threw
        /\ pc = "filterPosts done" =>
              \A i \in 1..Len(answer.value) :
                 LET p == answer.value[i]
                     q == ToLowerCase(query.filters.search)
                 IN  \/ p.title # NoString /\ Includes(ToLowerCase(p.title), q)
                     \/ p.content # NoString /\ Includes(ToLowerCase(p.content), q)
                     \/ Includes(ToLowerCase(p.author_name), q)

-----------------------------------------------------------------------------
(* Unknown and unembedded ids: scenario *)

\* embeddings of some of the ids 1..4; ids 5 and 9 never have one
UnknownEmbeddings ==
    {<<>>,
     <<[post_id |-> 1, x |-> 0, y |-> 0]>>,
     <<[post_id |-> 2, x |-> 1, y |-> 0], [post_id |-> 4, x |-> 0, y |-> 1]>>,
     <<[post_id |-> 1, x |-> 0, y |-> 0], [post_id |-> 2, x |-> 1, y |-> 0],
       [post_id |-> 3, x |-> 5, y |-> 5]>>}

UnknownAnchors == {1, 2, 3, 5, 9}

\* allow-lists, and the other predicates they are combined with
UnknownIdFilters ==
    {[DefaultFilters EXCEPT !.postIds = Arr(ids), !.submolts = s, !.search = q] :
        ids \in {<<9>>, <<9, 8>>, <<2, 9>>, <<1>>}, s \in {<<>>, <<"m1">>},
        q \in {<<>>, <<"a">>}}

InitUnknownIds ==
    /\ NoSession
    /\ pc = "similar"
    /\ NoHistogram /\ NoPlot /\ NoNetwork
    /\ posts \in Corpora(MaxUnknownPosts)
    /\ postTags = <<>> /\ postClassNotes = <<>> /\ tagEdges = <<>> /\ submoltUmap = <<>>
    /\ postEmbeddings \in UnknownEmbeddings
    /\ postById = BuildPostById(posts)
    /\ embeddingByPostId = BuildEmbeddingByPostId(postEmbeddings)
    /\ tagsByPostId = EmptyMap /\ classNotesByPostId = EmptyMap
    /\ NoPostGroups
    /\ NoFilter
    /\ similarArgs \in [postId : UnknownAnchors, limit : {MaxLimit}]
    /\ similar = <<>>
    /\ \E f \in UnknownIdFilters : query = [isNull |-> FALSE, op |-> "filterPosts", filters |-> f]
    /\ answer = Null

\* DataService.filterPosts(filters) with an allow-list of post ids
CallFilterPostsByIds ==
    /\ pc = "similar done"
    /\ pc' = "filterPosts done"
    /\ answer' = FilterPostsOutcome(posts, tagsByPostId, classNotesByPostId, query.filters)
    /\ UNCHANGED <<corpusVars, sessionVars, query, filterVars, histVars, similarVars, plotVars, networkVars>>

NextUnknownIds ==
    \/ CallFindSimilarPosts
    \/ CallFilterPostsByIds

SpecUnknownIds == InitUnknownIds /\ [][NextUnknownIds]_vars

-----------------------------------------------------------------------------
(* Unknown and unembedded ids: properties *)

InCorpus(id) == \E i \in 1..Len(posts) : posts[i].post_id = id

\* the allow-list is not empty and none of its ids is the id of a post
OnlyUnknownIds ==
    /\ query.filters.postIds.ids # <<>>
    /\ \A i \in 1..Len(query.filters.postIds.ids) : ~InCorpus(query.filters.postIds.ids[i])

\* C21: findSimilarPosts returns the empty sequence when the anchor id has no
\* embedding, whether or not it is the id of a post; filterPosts with an
\* allow-list of post ids none of which is in the corpus returns the empty
\* sequence; neither call throws.
C21_UnknownIdsEmpty ==
    /\ pc \in {"similar done", "filterPosts done"} /\ ~HasEmbedding(similarArgs.postId)
          => similar = <<>>
    /\ pc = "filterPosts done" /\ OnlyUnknownIds => answer = Returned(<<>>)

\* the anchor is a post without embedding while other posts have one, and the
\* allow-list names only ids that are not in the non-empty corpus
C21_Witness ==
    /\ pc = "filterPosts done"
    /\ InCorpus(similarArgs.postId) /\ ~HasEmbedding(similarArgs.postId)
    /\ Len(postEmbeddings) = 2
    /\ similar = <<>>
    /\ posts # <<>> /\ OnlyUnknownIds
    /\ query.filters.submolts = <<>> /\ query.filters.search = <<>>
    /\ answer = Returned(<<>>)

-----------------------------------------------------------------------------
(* The session: the StateService operations, the hashchange event and the   *)
(* tab buttons, each with the listener it notifies.                         *)

\* a post of the session's corpora
SessionPost(id, title, content, author, submolt, upvotes, comments, len) ==
    [post_id |-> id, title |-> title, content |-> content, author_name |-> author,
     submolt_name |-> submolt, upvotes |-> upvotes, comment_count |-> comments,
     content_len |-> len]

\* posts that differ in every field filterPosts reads, and a post whose title
\* is absent
SessionPool ==
    <<SessionPost(1, <<"A", "b">>, <<"a", " ", "b">>, <<"a", "b">>, "m1", 5, 5, 3),
      SessionPost(2, <<>>, <<"b">>, <<"B">>, "m1", 12, 8, 1),
      SessionPost(3, <<"b", " ", "a">>, <<>>, <<"a", "b">>, "m2", 20, 3, 0),
      SessionPost(4, <<"B">>, <<"A">>, <<"B">>, "m3", 3, 0, 1)>>

UntitledPost == SessionPost(5, NoString, <<"a">>, <<"c">>, "m2", 1, 1, 1)

\* the corpus of well-formed posts: the first posts of the pool
SessionCorpora == {SubSeq(SessionPool, 1, MaxSessionPosts)}

\* the corpora with the post of absent title
UntitledCorpora == {<<SessionPool[1], UntitledPost>>, <<UntitledPost>>}

SessionTagRows == <<[post_id |-> 1, tag |-> "t1"], [post_id |-> 3, tag |-> "t1"]>>

SessionNoteRows == <<[post_id |-> 2, class_note |-> "n1"]>>

\* the values the controls of the page pass to the operations
SubmoltInputs == {"m1"}

AuthorInputs == {<<"a", "b">>}

TagInputs == {"t1"}

ClassNoteInputs == {"n1"}

EngagementInputs == {0, 6}

SearchInputs == {<<>>, <<"b">>}

Tabs == {"overview", "integrity"}

\* the posts a visitor clicks or selects
SelectableIds == {1}

\* a hash as the page writes it
Written(members) == <<[t |-> "#"]>> \o EncodeURIComponent(JsonStringify(members))

\* {"s":["m1","m1"]}
HashRepeating == Written(<<[key |-> "s", strs |-> <<"m1", "m1">>]>>)

\* {"s":[],"q":"","u":0,"p":null}
HashFalsy ==
    Written(<<[key |-> "s", strs |-> <<>>], [key |-> "q", str |-> <<>>],
              [key |-> "u", num |-> 0], [key |-> "p", null |-> TRUE]>>)

\* every key with a truthy value
HashFull ==
    Written(<<[key |-> "s", strs |-> <<"m2">>], [key |-> "a", seqs |-> <<<<"a", "b">>>>],
              [key |-> "t", strs |-> <<"t1">>], [key |-> "n", strs |-> <<"n1">>],
              [key |-> "u", num |-> 6], [key |-> "c", num |-> 6],
              [key |-> "q", str |-> <<"b">>], [key |-> "p", post |-> 1],
              [key |-> "tab", name |-> "integrity"]>>)

\* null
HashNull == <<[t |-> "#"], [pct |-> [t |-> "null"]]>>

\* {"s":["m2"] without the closing brace
HashBroken ==
    <<[t |-> "#"], [pct |-> [t |-> "{"]], [pct |-> [key |-> "s", strs |-> <<"m2">>]]>>

\* %{} : a "%" that starts no escape sequence
HashBadEscape == <<[t |-> "#"], [t |-> "%"], [pct |-> [t |-> "{"]], [pct |-> [t |-> "}"]]>>

\* the hashes a visitor navigates to: written by the page or typed by hand
HashInputs ==
    {<<>>, HashRepeating, HashFalsy, HashFull, HashNull, HashBroken, HashBadEscape}

\* DataService.filterPosts(StateService.getFilters()) for filters f
Filtered(f) == FilterPostsOutcome(posts, tagsByPostId, classNotesByPostId, f)

\* the rest of the state after init(), the address holding no hash
Ready ==
    /\ pc = "ready"
    /\ tagEdges = <<>> /\ submoltUmap = <<>> /\ postEmbeddings = <<>>
    /\ postById = BuildPostById(posts) /\ embeddingByPostId = <<>>
    /\ tagsByPostId = BuildTagsByPostId(postTags)
    /\ classNotesByPostId = BuildClassNotesByPostId(postClassNotes)
    /\ NoPostGroups
    /\ NoHistogram /\ NoSimilar /\ NoPlot /\ NoNetwork /\ NoQuery
    /\ hash = <<>>
    /\ filters = LoadFromHash(DefaultState, hash)
    /\ currentTab = filters.tab
    /\ currentPosts = Filtered(filters).value
    /\ refiltered = <<>>
    /\ view = RenderCurrentTab(currentTab, currentPosts, posts)
    /\ loaded = 7 /\ indexBuilds = 1 /\ evaluated = TRUE

InitSession ==
    /\ posts \in SessionCorpora
    /\ postTags = SessionTagRows /\ postClassNotes = SessionNoteRows
    /\ Ready

\* what a session operation leaves alone
SessionFrame ==
    UNCHANGED <<pc, corpusVars, refiltered, histVars, similarVars, queryVars, plotVars,
                networkVars, loaded, indexBuilds>>

\* notify(): the listener registered by init sets currentPosts and renders; when
\* filterPosts or the rendering throws, the rest of the operation is not run
Notify(save) ==
    LET out == Filtered(filters')
    IN  /\ evaluated' = TRUE
        /\ IF out.threw
           THEN UNCHANGED <<currentPosts, view, hash>>
           ELSE /\ currentPosts' = out.value
                /\ view' = RenderCurrentTab(currentTab, out.value, posts)
                /\ hash' = IF save /\ ~view'.threw THEN SaveToHash(filters') ELSE hash

\* StateService.setFilters({ ...StateService.getFilters(), submolts: [name] })
SetFilters ==
    /\ pc = "ready"
    /\ \E name \in SubmoltInputs : filters' = [filters EXCEPT !.submolts = <<name>>]
    /\ Notify(TRUE)
    /\ UNCHANGED currentTab
    /\ SessionFrame

\* StateService.clearFilters()
ClearFilters ==
    /\ pc = "ready"
    /\ filters' = ClearedFilters(filters)
    /\ Notify(TRUE)
    /\ UNCHANGED currentTab
    /\ SessionFrame

\* the button of a tab: currentTab = tab; StateService.setTab(tab); renderCurrentTab()
TabClick(tab) ==
    /\ pc = "ready"
    /\ currentTab' = tab
    /\ filters' = [filters EXCEPT !.tab = tab]
    /\ hash' = SaveToHash(filters')
    /\ view' = RenderCurrentTab(currentTab', currentPosts, posts)
    /\ UNCHANGED <<currentPosts, evaluated>>
    /\ SessionFrame

\* a tab button of the session's tabs
SetTab == \E tab \in Tabs : TabClick(tab)

ToggleSubmoltFilter ==
    /\ pc = "ready"
    /\ \E s \in SubmoltInputs : filters' = [filters EXCEPT !.submolts = Toggle(@, s)]
    /\ Notify(TRUE)
    /\ UNCHANGED currentTab
    /\ SessionFrame

ToggleTagFilter ==
    /\ pc = "ready"
    /\ \E t \in TagInputs : filters' = [filters EXCEPT !.tags = Toggle(@, t)]
    /\ Notify(TRUE)
    /\ UNCHANGED currentTab
    /\ SessionFrame

ToggleClassNoteFilter ==
    /\ pc = "ready"
    /\ \E n \in ClassNoteInputs : filters' = [filters EXCEPT !.classNotes = Toggle(@, n)]
    /\ Notify(TRUE)
    /\ UNCHANGED currentTab
    /\ SessionFrame

ToggleAuthorFilter ==
    /\ pc = "ready"
    /\ \E a \in AuthorInputs : filters' = [filters EXCEPT !.authors = Toggle(@, a)]
    /\ Notify(TRUE)
    /\ UNCHANGED currentTab
    /\ SessionFrame

SetEngagement ==
    /\ pc = "ready"
    /\ \E field \in {"minUpvotes", "minComments"}, val \in EngagementInputs :
          filters' = [filters EXCEPT !.engagement[field] = val]
    /\ Notify(TRUE)
    /\ UNCHANGED currentTab
    /\ SessionFrame

SetSearch ==
    /\ pc = "ready"
    /\ \E q \in SearchInputs : filters' = [filters EXCEPT !.search = q]
    /\ Notify(TRUE)
    /\ UNCHANGED currentTab
    /\ SessionFrame

\* StateService.setPostIds(ids): the posts of a selection, or null
SetPostIds ==
    /\ pc = "ready"
    /\ \E ids \in {Null} \cup {Arr(<<posts[i].post_id>>) : i \in 1..Len(posts)} :
          /\ ~IsNull(ids) => ids.ids[1] \in SelectableIds
          /\ filters' = [filters EXCEPT !.postIds = ids]
    /\ Notify(FALSE)
    /\ UNCHANGED currentTab
    /\ SessionFrame

\* showPostInReader(postId) for a post of the index, and the closing of the reader
SetSelectedPost ==
    /\ pc = "ready"
    /\ \E sel \in {Null} \cup {Sel(posts[i].post_id) : i \in 1..Len(posts)} :
          /\ ~IsNull(sel) => sel.id \in SelectableIds
          /\ filters' = [filters EXCEPT !.selectedPost = sel]
    /\ hash' = SaveToHash(filters')
    /\ UNCHANGED <<currentPosts, view, currentTab, evaluated>>
    /\ SessionFrame

\* the hashchange listener: StateService.loadFromHash(); StateService.notify()
HashChange ==
    /\ pc = "ready"
    /\ \E h \in HashInputs :
          /\ h # hash
          /\ filters' = LoadFromHash(filters, h)
          /\ LET out == Filtered(filters')
             IN  /\ evaluated' = TRUE
                 /\ hash' = h
                 /\ IF out.threw
                    THEN UNCHANGED <<currentPosts, view>>
                    ELSE /\ currentPosts' = out.value
                         /\ view' = RenderCurrentTab(currentTab, out.value, posts)
    /\ UNCHANGED currentTab
    /\ SessionFrame

NextSession ==
    \/ SetFilters \/ ClearFilters \/ SetTab
    \/ ToggleSubmoltFilter \/ ToggleTagFilter \/ ToggleClassNoteFilter \/ ToggleAuthorFilter
    \/ SetEngagement \/ SetSearch \/ SetPostIds \/ SetSelectedPost
    \/ HashChange

SpecSession == InitSession /\ [][NextSession]_vars

InitUntitled ==
    /\ posts \in UntitledCorpora
    /\ postTags = <<>> /\ postClassNotes = <<>>
    /\ Ready

\* the controls used on the corpora with the post of absent title
NextUntitled ==
    \/ SetSearch \/ ToggleSubmoltFilter \/ SetEngagement \/ ClearFilters \/ SetPostIds
    \/ SetTab

SpecUntitled == InitUntitled /\ [][NextUntitled]_vars

-----------------------------------------------------------------------------
(* The integrity view under changing filters *)

\* two posts titled alike in different communities, two titled alike up to
\* case and padding, and a post with neither title nor content; some with
\* upvotes or lengths over the thresholds of the outlier scans
IntegrityPool ==
    <<SessionPost(1, TitleTen, <<"a", " ", "b">>, <<"a", "b">>, "m1", 12, 5, 6000),
      SessionPost(2, TitleTen, <<"b">>, <<"B">>, "m2", 5, 8, 100),
      SessionPost(3, TitleUpper, <<>>, <<"a", "b">>, "m1", 20, 3, 5001),
      SessionPost(4, TitlePadded, <<"A">>, <<"B">>, "m2", 3, 0, 10),
      SessionPost(5, <<>>, <<>>, <<"c">>, "m1", 11, 0, 0)>>

\* the first posts of the pool, in its order or in the reverse order
IntegrityCorpora ==
    LET whole == {SubSeq(IntegrityPool, 1, n) : n \in 0..MaxIntegrityPosts}
    IN  whole \cup {Reverse(c) : c \in whole}

InitIntegrity ==
    /\ posts \in IntegrityCorpora
    /\ postTags = <<>> /\ postClassNotes = <<>>
    /\ Ready

\* the controls that apply to a corpus without tags and class notes
NextIntegrity ==
    \/ SetFilters \/ ClearFilters \/ SetTab \/ ToggleSubmoltFilter \/ ToggleAuthorFilter
    \/ SetEngagement \/ SetSearch \/ SetPostIds

SpecIntegrity == InitIntegrity /\ [][NextIntegrity]_vars

\* the integrity view is on screen
IntegrityShown == ~IsNull(view) /\ ~view.threw /\ view.value.tab = "integrity"

\* C22: whatever the filter state, the duplicate groups and the outliers the
\* integrity view lists are those of the scans over the whole corpus
C22_ScansOverFullCorpus ==
    IntegrityShown =>
        /\ view.value.duplicates = SliceTo(FindDuplicates(posts).value, MaxListed)
        /\ view.value.outliers = SliceTo(FindOutliers(posts), MaxListed)

\* the view lists a duplicate group and an outlier that the active filter excludes
C22_Witness ==
    /\ IntegrityShown
    /\ Len(currentPosts) > 0 /\ Len(currentPosts) < Len(posts)
    /\ \E i \in 1..Len(view.value.duplicates) :
          \E k \in 1..Len(view.value.duplicates[i].posts) :
             \A j \in 1..Len(currentPosts) :
                currentPosts[j].post_id # view.value.duplicates[i].posts[k].post_id
    /\ \E i \in 1..Len(view.value.outliers) :
          \A j \in 1..Len(currentPosts) :
             currentPosts[j].post_id # view.value.outliers[i].post.post_id

-----------------------------------------------------------------------------
(* C28: the displayed posts follow the filters *)

\* C28: after initialization, whatever operations and hashchange events have
\* run, filterPosts applied to the current filters returns currentPosts
C28_CurrentPostsFollowFilters ==
    pc = "ready" => Filtered(filters) = Returned(currentPosts)

-----------------------------------------------------------------------------
(* C29: what loadFromHash leaves alone *)

\* the keys a hash of the inputs holds with a truthy value, read off its text
TruthyKeys(h) ==
    IF h = HashRepeating THEN {"s"}
    ELSE IF h = HashFalsy THEN {"s"}
    ELSE IF h = HashFull THEN {"s", "a", "t", "n", "u", "c", "q", "p", "tab"}
    ELSE {}

\* the fields in which the filters f and g differ, by the keys of the hash
ChangedKeys(f, g) ==
    {k \in {"s", "a", "t", "n", "u", "c", "q", "p", "tab", "postIds"} :
        \/ k = "s" /\ g.submolts # f.submolts
        \/ k = "a" /\ g.authors # f.authors
        \/ k = "t" /\ g.tags # f.tags
        \/ k = "n" /\ g.classNotes # f.classNotes
        \/ k = "u" /\ g.engagement.minUpvotes # f.engagement.minUpvotes
        \/ k = "c" /\ g.engagement.minComments # f.engagement.minComments
        \/ k = "q" /\ g.search # f.search
        \/ k = "p" /\ g.selectedPost # f.selectedPost
        \/ k = "tab" /\ g.tab # f.tab
        \/ k = "postIds" /\ g.postIds # f.postIds}

\* C29: a hashchange changes only fields whose key the new hash holds with a
\* truthy value; postIds and the fields of missing or falsy keys keep their
\* values, and an empty or unparseable hash changes no field
C29_LoadFromHashFrame ==
    [][hash' # hash /\ HashChange =>
          ChangedKeys(filters, filters') \subseteq TruthyKeys(hash')]_vars

\* after loading a hash whose only truthy key is "s", the search, the
\* thresholds, the selected post, the tab and postIds still hold values no
\* hash of that kind holds
C29_Witness ==
    /\ hash = HashFalsy
    /\ filters.submolts = <<>>
    /\ filters.search = <<"b">> /\ filters.engagement.minUpvotes = 6
    /\ filters.selectedPost = Sel(1) /\ filters.tab = "integrity"
    /\ filters.postIds = Arr(<<1>>)
    /\ filters.tags = <<"t1">>

-----------------------------------------------------------------------------
(* C30: the toggles *)

\* the values a selection list holds
Selected(list) == {list[i] : i \in 1..Len(list)}

DuplicateFree(list) == \A i, j \in 1..Len(list) : list[i] = list[j] => i = j

\* the four selection lists
SelectionLists(f) == <<f.submolts, f.authors, f.tags, f.classNotes>>

\* one toggle of v took the list from before to after as a set: v added when
\* absent, removed when present, nothing else touched
ToggledAsSet(before, after, v) ==
    Selected(after) = IF v \in Selected(before)
                      THEN Selected(before) \ {v}
                      ELSE Selected(before) \cup {v}

\* some step of the four toggle operations
ToggleStep ==
    ToggleSubmoltFilter \/ ToggleTagFilter \/ ToggleClassNoteFilter \/ ToggleAuthorFilter

\* C30: every selection list is duplicate-free in every reachable state, and
\* a toggle adds the value when absent and removes it when present, so that
\* one toggle of a selected value deselects it and two toggles restore the set
C30_TogglesDeselect ==
    /\ [](pc = "ready" =>
            \A k \in 1..4 : DuplicateFree(SelectionLists(filters)[k]))
    /\ [][ToggleStep =>
            \A k \in 1..4 :
               LET before == SelectionLists(filters)[k]
                   after  == SelectionLists(filters')[k]
               IN  before # after =>
                      /\ \E v \in Selected(before) \cup Selected(after) :
                            ToggledAsSet(before, after, v)
                      /\ \A v \in Selected(before) \cup Selected(after) :
                            ToggledAsSet(before, after, v) =>
                               Selected(Toggle(after, v)) = Selected(before)]_vars

-----------------------------------------------------------------------------
(* C26: the hash round trip *)

\* the filters a fresh page reads from the hash saveToHash writes for f
RoundTrip(f) == LoadFromHash(DefaultState, SaveToHash(f))

-----------------------------------------------------------------------------
(* C27: the nodes of the author-community graph *)

\* C27: in a drawn author-community graph the links are the pairs that reach
\* the threshold, and every node, author or community, is an endpoint of a link
C27_AuthorGraphNodesHaveEdges ==
    AuthorGraphDrawn =>
        /\ \A i \in 1..Len(network.links) :
              AtLeast(network.links[i].weight, edgeThresholdPercent)
        /\ \A n \in 1..Len(network.nodes) :
              \E i \in 1..Len(network.links) :
                 network.nodes[n] \in {network.links[i].source, network.links[i].target}

-----------------------------------------------------------------------------
(* Loading: init() from the first fetch to the first render *)

\* posts, submolts, postTags, postClassNotes, tagEdges, submoltUmap, postEmbeddings
SequenceFiles == 7

\* what each of the seven files may hold: an array of records or no array
FileContents ==
    <<{SubSeq(SessionPool, 1, MaxLoadPosts), NotASequence},
      {<<[submolt_name |-> "m1"], [submolt_name |-> "m2"]>>, NotASequence},
      {SessionTagRows, NotASequence},
      {SessionNoteRows, NotASequence},
      {<<[tag_a |-> "t1", tag_b |-> "t2", weight |-> 2]>>, NotASequence},
      {<<[submolt_name |-> "m1", x |-> 0, y |-> 0]>>, NotASequence},
      {<<[post_id |-> 1, x |-> 0, y |-> 0]>>, NotASequence}>>

\* the page before DOMContentLoaded: DataService and StateService as declared
InitLoad ==
    /\ pc = "schema"
    /\ NoCorpus /\ NoHistogram /\ NoSimilar /\ NoPlot /\ NoNetwork /\ NoQuery
    /\ filters = DefaultState /\ currentPosts = <<>> /\ refiltered = <<>>
    /\ NoSession

\* when a step of the loading leaves alone what it does not assign
LoadFrame ==
    UNCHANGED <<filterVars, histVars, similarVars, queryVars, plotVars, networkVars,
                hash, view, currentTab, evaluated>>

\* this.schema = await this.loadJson(...): the response is ok, or loadJson throws
LoadSchema ==
    /\ pc = "schema"
    /\ pc' \in {"loading", "failed"}
    /\ UNCHANGED <<corpusVars, loaded, indexBuilds>>
    /\ LoadFrame

\* the next of the seven assignments this.<name> = await this.loadJson(...);
\* no assignment looks at what was parsed
LoadJson ==
    /\ pc = "loading" /\ loaded < SequenceFiles
    /\ \/ /\ pc' = "failed"
          /\ UNCHANGED <<corpusVars, loaded>>
       \/ /\ pc' = pc
          /\ loaded' = loaded + 1
          /\ \E rows \in FileContents[loaded + 1] :
                /\ posts' = IF loaded = 0 THEN rows ELSE posts
                /\ submolts' = IF loaded = 1 THEN rows ELSE submolts
                /\ postTags' = IF loaded = 2 THEN rows ELSE postTags
                /\ postClassNotes' = IF loaded = 3 THEN rows ELSE postClassNotes
                /\ tagEdges' = IF loaded = 4 THEN rows ELSE tagEdges
                /\ submoltUmap' = IF loaded = 5 THEN rows ELSE submoltUmap
                /\ postEmbeddings' = IF loaded = 6 THEN rows ELSE postEmbeddings
          /\ UNCHANGED indexVars
    /\ UNCHANGED indexBuilds
    /\ LoadFrame

\* variant that builds the indexes as soon as the posts are loaded
PostsLoaded == loaded >= 1

\* loadAll reaches this.buildIndexes() after the seven awaits
AllLoaded == loaded = SequenceFiles

\* this.buildIndexes() as loadAll calls it: .map or for...of on a value that is
\* no array throws, the assignments before it made, and loadAll rejects
LoadAllBuildIndexes ==
    /\ pc = "loading" /\ AllLoaded
    /\ LET ok1 == posts # NotASequence
           ok2 == ok1 /\ submolts # NotASequence
           ok3 == ok2 /\ postTags # NotASequence
           ok4 == ok3 /\ postClassNotes # NotASequence
           ok5 == ok4 /\ postEmbeddings # NotASequence
       IN  /\ postById' = IF ok1 THEN BuildPostById(posts) ELSE postById
           /\ submoltByName' = IF ok2 THEN BuildSubmoltByName(submolts) ELSE submoltByName
           /\ tagsByPostId' = IF ok3 THEN BuildTagsByPostId(postTags)
                              ELSE IF ok2 THEN EmptyMap ELSE tagsByPostId
           /\ classNotesByPostId' = IF ok4 THEN BuildClassNotesByPostId(postClassNotes)
                                    ELSE IF ok3 THEN EmptyMap ELSE classNotesByPostId
           /\ embeddingByPostId' = IF ok5 THEN BuildEmbeddingByPostId(postEmbeddings)
                                   ELSE embeddingByPostId
           /\ postsBySubmolt' = IF ok5 THEN BuildPostsBySubmolt(posts) ELSE postsBySubmolt
           /\ postsByAuthor' = IF ok5 THEN BuildPostsByAuthor(posts) ELSE postsByAuthor
           /\ pc' = IF ok5 THEN "indexed" ELSE "failed"
    /\ indexBuilds' = indexBuilds + 1
    /\ UNCHANGED <<posts, postTags, postClassNotes, tagEdges, submoltUmap, postEmbeddings,
                   submolts, loaded>>
    /\ LoadFrame

\* the rest of init(): loadFromHash, the listeners, the first render.  The
\* address holds no hash and the posts are well-formed, so nothing throws.
InitRender ==
    /\ pc = "indexed"
    /\ pc' = "ready"
    /\ filters' = LoadFromHash(DefaultState, hash)
    /\ currentTab' = filters'.tab
    /\ currentPosts' = Filtered(filters').value
    /\ view' = RenderCurrentTab(currentTab', currentPosts', posts)
    /\ evaluated' = TRUE
    /\ UNCHANGED <<corpusVars, refiltered, hash, loaded, indexBuilds, histVars, similarVars,
                   queryVars, plotVars, networkVars>>

\* the button of the networks tab
NetworksTabClick == TabClick("networks")

NextLoad ==
    \/ LoadSchema \/ LoadJson \/ LoadAllBuildIndexes \/ InitRender
    \/ ToggleSubmoltFilter \/ SetSearch \/ HashChange \/ SetTab \/ NetworksTabClick
    \/ SetSelectedPost

SpecLoad == InitLoad /\ [][NextLoad]_vars

\* a fetch settles and the code after the await runs
SpecLoadFair ==
    SpecLoad /\ WF_vars(LoadSchema \/ LoadJson \/ LoadAllBuildIndexes \/ InitRender)

\* C24: buildIndexes runs at most once, and once in every session that gets
\* to its first render or whose loading does not fail; it runs only after
\* the seven sequences are loaded and before any filter evaluation, and once
\* it has run no step changes an index
C24_IndexBuiltOnceAfterLoad ==
    /\ [](/\ indexBuilds <= 1
          /\ evaluated => indexBuilds = 1
          /\ pc = "ready" => indexBuilds = 1 /\ loaded = SequenceFiles)
    /\ [][indexBuilds' # indexBuilds =>
             loaded = SequenceFiles /\ ~evaluated /\ ~evaluated']_vars
    /\ [][indexBuilds = 1 => UNCHANGED indexVars]_vars
    /\ <>(pc = "failed" \/ indexBuilds = 1)

\* a session with an index built from all sequences, in which a filter
\* change, a hashchange, a tab change and a selection have taken place
C24_Witness ==
    /\ pc = "ready" /\ indexBuilds = 1
    /\ Len(postById) = MaxLoadPosts /\ Len(embeddingByPostId) = 1
    /\ OMapGet(postById, 1) = posts[1]
    /\ filters.submolts = <<"m1", "m1">> /\ hash = HashRepeating
    /\ filters.selectedPost = Sel(1) /\ currentTab = "integrity"
    /\ filters.search = <<"b">>
    /\ Len(currentPosts) < Len(posts)

\* some loaded sequence is no sequence
SomeInvalid ==
    \E k \in 1..SequenceFiles :
        <<posts, submolts, postTags, postClassNotes, tagEdges, submoltUmap,
          postEmbeddings>>[k] = NotASequence

\* C25: when a loaded sequence is no sequence, no filter evaluation or query
\* runs, no view is produced and initialization does not complete
C25_InvalidSequenceFailsLoad ==
    SomeInvalid => ~evaluated /\ IsNull(view) /\ pc # "ready"

-----------------------------------------------------------------------------
(* The queries and what they leave alone *)

QueryPost(id, title, author, submolt, upvotes, len, created) ==
    [post_id |-> id, title |-> title, content |-> <<"a">>, author_name |-> author,
     submolt_name |-> submolt, upvotes |-> upvotes, comment_count |-> 0,
     content_len |-> len, created_at |-> created]

\* two posts titled alike, out of order by every field a query sorts by
QueryPool ==
    <<QueryPost(1, TitleTen, <<"a">>, "m1", 5, 6000, <<"2">>),
      QueryPost(2, TitleTen, <<"b">>, "m2", 20, 100, <<"1", "0">>),
      QueryPost(3, <<"b", " ", "a">>, <<"a">>, "m2", 12, 5001, <<"9">>),
      QueryPost(4, <<"c">>, <<"b">>, "m1", 12, 7000, <<"1">>)>>

QueryCorpora ==
    LET whole == {SubSeq(QueryPool, 1, n) : n \in 1..MaxQueryPosts}
    IN  whole \cup {Reverse(c) : c \in whole}

QueryTagRows ==
    <<[post_id |-> 2, tag |-> <<"b", ":", "x">>], [post_id |-> 1, tag |-> <<"a", ":", "x">>],
      [post_id |-> 2, tag |-> <<"x">>], [post_id |-> 3, tag |-> <<"a", ":", "x">>]>>

QueryNoteRows == <<[post_id |-> 3, class_note |-> "n1"], [post_id |-> 1, class_note |-> "n2"]>>

QueryEmbeddings ==
    <<[post_id |-> 2, x |-> 3, y |-> 0], [post_id |-> 1, x |-> 0, y |-> 0],
      [post_id |-> 3, x |-> 1, y |-> 1]>>

\* the filter specifications passed to filterPosts
QueryFilters ==
    {DefaultFilters,
     [DefaultFilters EXCEPT !.submolts = <<"m2">>],
     [DefaultFilters EXCEPT !.tags = <<<<"a", ":", "x">>>>, !.search = <<"B">>],
     [DefaultFilters EXCEPT !.postIds = Arr(<<3, 1>>), !.classNotes = <<"n1", "n2">>]}

\* the post arrays passed to the other queries: DataService.posts itself, or a
\* result of filterPosts
PassedPosts ==
    {posts} \cup {FilterPosts(posts, tagsByPostId, classNotesByPostId, f) : f \in QueryFilters}

InitQueries ==
    /\ pc = "query"
    /\ posts \in QueryCorpora
    /\ postTags = QueryTagRows /\ postClassNotes = QueryNoteRows
    /\ tagEdges = <<>> /\ submoltUmap = <<>>
    /\ postEmbeddings = QueryEmbeddings
    /\ submolts = <<[submolt_name |-> "m1"], [submolt_name |-> "m2"]>>
    /\ postById = BuildPostById(posts)
    /\ submoltByName = BuildSubmoltByName(submolts)
    /\ tagsByPostId = BuildTagsByPostId(postTags)
    /\ classNotesByPostId = BuildClassNotesByPostId(postClassNotes)
    /\ embeddingByPostId = BuildEmbeddingByPostId(postEmbeddings)
    /\ postsBySubmolt = BuildPostsBySubmolt(posts)
    /\ postsByAuthor = BuildPostsByAuthor(posts)
    /\ NoFilter /\ NoHistogram /\ NoSimilar /\ NoPlot /\ NoNetwork /\ NoQuery
    /\ hash = <<>> /\ view = Null /\ currentTab = "overview"
    /\ loaded = SequenceFiles /\ indexBuilds = 1 /\ evaluated = FALSE

\* a call of the query op that was passed the posts ps and the filter
\* specification f, returned result and left its arguments as psAfter and fAfter
Ran(op, ps, f, result, psAfter, fAfter) ==
    /\ pc = "query"
    /\ query' = [isNull |-> FALSE, op |-> op,
                 passed |-> [posts |-> ps, filters |-> f],
                 posts |-> psAfter, filters |-> fAfter]
    /\ answer' = result
    /\ evaluated' = TRUE
    /\ UNCHANGED <<pc, corpusVars, filterVars, histVars, similarVars, plotVars, networkVars,
                   hash, view, currentTab, loaded, indexBuilds>>

RunFilterPosts ==
    \E f \in QueryFilters :
        Ran("filterPosts", <<>>, f,
            FilterPosts(posts, tagsByPostId, classNotesByPostId, f), <<>>, f)

RunGetTopItems ==
    \E ps \in PassedPosts, field \in {"author_name", "submolt_name"} :
        Ran("getTopItems", ps, Null, GetTopItems(ps, field, MaxTopLimit, Null), ps, Null)

RunGetTopTags ==
    \E ps \in PassedPosts :
        Ran("getTopTags", ps, Null, GetTopTags(ps, tagsByPostId, MaxTopLimit), ps, Null)

RunGetTopClassNotes ==
    \E ps \in PassedPosts :
        Ran("getTopClassNotes", ps, Null,
            GetTopClassNotes(ps, classNotesByPostId, MaxTopLimit), ps, Null)

RunGetAllTagsGrouped ==
    Ran("getAllTagsGrouped", <<>>, Null, GetAllTagsGrouped(postTags), <<>>, Null)

RunGetHistogram ==
    \E ps \in PassedPosts :
        Ran("getHistogram", ps, Null, GetHistogram(ps, "upvotes", SmallBins), ps, Null)

RunSortPosts ==
    \E ps \in PassedPosts, field \in {"created_at", "upvotes"}, asc \in BOOLEAN :
        LET r == SortPosts(ps, field, asc)
        IN  Ran("sortPosts", ps, Null, r.returned, r.posts, Null)

RunFindSimilarPosts ==
    \E postId \in {1, 2, 9} :
        Ran("findSimilarPosts", <<>>, Null,
            FindSimilarPosts(embeddingByPostId, postById, postId, MaxLimit), <<>>, Null)

RunFindDuplicates ==
    \E ps \in PassedPosts :
        Ran("findDuplicates", ps, Null, FindDuplicates(ps), ps, Null)

RunFindOutliers ==
    \E ps \in PassedPosts :
        Ran("findOutliers", ps, Null, FindOutliers(ps), OutliersArgument(ps), Null)

NextQueries ==
    \/ RunFilterPosts \/ RunGetTopItems \/ RunGetTopTags \/ RunGetTopClassNotes
    \/ RunGetAllTagsGrouped \/ RunGetHistogram \/ RunSortPosts \/ RunFindSimilarPosts
    \/ RunFindDuplicates \/ RunFindOutliers

SpecQueries == InitQueries /\ [][NextQueries]_vars

\* C23: no query changes a corpus sequence or an index map, and after every
\* query the post array and the filter specification it was passed are as
\* they were passed
C23_QueriesReadOnly ==
    /\ [](~IsNull(query) =>
             query.posts = query.passed.posts /\ query.filters = query.passed.filters)
    /\ [][UNCHANGED corpusVars]_vars

\* findOutliers has ranked the posts it was passed in another order than they
\* were passed, and the array passed is DataService.posts itself
C23_Witness ==
    /\ ~IsNull(query) /\ query.op = "findOutliers"
    /\ query.passed.posts = posts /\ Len(posts) = MaxQueryPosts
    /\ Len(answer) >= 3
    /\ answer[1].post = posts[2] /\ answer[Len(answer)].post # posts[Len(posts)]

====
